---- MODULE Spec2Model ----
(***************************************************************************)
(* A model of openmc/surface.py: implicit surfaces (planes, cylinders,     *)
(* spheres, cones, quadrics, tori), their translate / rotate / clone       *)
(* operations and the half-spaces built on them.                           *)
(*                                                                         *)
(* Numbers.  Coefficients, vector components and point coordinates range   *)
(* over the integers, where the arithmetic of the code is exact and where  *)
(* np.isclose(x, y, rtol=0, atol=1e-12) is x = y.  Values the code derives *)
(* by division are kept as exact fractions: a common positive denominator  *)
(* "den" next to integer numerators "num".  A rotation matrix is a 3x3     *)
(* integer matrix "m" over a denominator "den"; a transform is taken only  *)
(* on inputs for which the coefficients it stores are integers again.      *)
(*                                                                         *)
(* Objects.  Every surface instance a constructor or clone leaves          *)
(* reachable is an entry of "heap" (the copy deepcopy makes of the surface *)
(* of a half-space being cloned is dropped at once and is no entry); its   *)
(* index is the instance (Python object identity), its "id" field is the   *)
(* Surface.id and its "cls" field its class, the table of the descriptors  *)
(* of its family.  A failing call is a result whose "err" names the        *)
(* exception; what the call changed before raising stays changed.          *)
(***************************************************************************)
EXTENDS Integers, Sequences, FiniteSets, TLC

VARIABLES heap, next_id, used_ids, hs, regions, memos, hist

vars == <<heap, next_id, used_ids, hs, regions, memos, hist>>

----------------------------------------------------------------------------
(* Bounds of the model *)

MaxCoord == 1
MaxPoint == 1
MaxTranslates == 2
MaxTransforms == 1
MaxHalfspaceOps == 1
MaxClones == 2
MaxRegionOps == 2
MaxQueries == 1
MaxScale == 3
MaxScalings == 2
MaxQuarterTurns == 4
MaxAssigns == 2
MaxPairings == 2
MaxMoves == 2
MaxBoxOps == 2
MaxXmlOps == 2
MaxMemoOps == 2
MaxEvalMoves == 1

----------------------------------------------------------------------------
(* Small arithmetic *)

Abs(x) == IF x < 0 THEN -x ELSE x

Sgn(x) == IF x > 0 THEN 1 ELSE IF x < 0 THEN -1 ELSE 0

Divides(d, x) == x % d = 0

\* exact quotient of x by d > 0 (used only where Divides(d, x))
Quot(x, d) == IF x >= 0 THEN x \div d ELSE -((-x) \div d)

\* the least whole number whose square is at least 1 / (2 * 1e-12), the
\* tolerance being Surface._atol
NearlyAligned == 707107

ISqrt(n) == CHOOSE k \in 0..n : k * k = n

Dot3(u, v) == u[1] * v[1] + u[2] * v[2] + u[3] * v[3]

Neg3(v) == <<-v[1], -v[2], -v[3]>>

Add3(u, v) == <<u[1] + v[1], u[2] + v[2], u[3] + v[3]>>

Sub3(u, v) == <<u[1] - v[1], u[2] - v[2], u[3] - v[3]>>

\* numerators of Rmat @ v (the value is this over Rmat.den)
MatVec(R, v) == <<Dot3(R.m[1], v), Dot3(R.m[2], v), Dot3(R.m[3], v)>>

\* every component of the numerator vector w is a multiple of d
Exact3(w, d) == Divides(d, w[1]) /\ Divides(d, w[2]) /\ Divides(d, w[3])

Quot3(w, d) == <<Quot(w[1], d), Quot(w[2], d), Quot(w[3], d)>>

----------------------------------------------------------------------------
(* Surface._atol and the closeness tests made with it *)

IsClose(x, y) == x = y

AllCloseZero(v) == IsClose(v[1], 0) /\ IsClose(v[2], 0) /\ IsClose(v[3], 0)

----------------------------------------------------------------------------
(* The families: _type, _coeff_keys, the SurfaceCoefficient descriptors    *)

PlaneTypes == {"plane", "x-plane", "y-plane", "z-plane"}

TorusTypes == {"x-torus", "y-torus", "z-torus"}

\* a descriptor bound to a slot of _coefficients
K(key) == [const |-> FALSE, key |-> key, value |-> 0]

\* a descriptor holding a number: read-only
C(value) == [const |-> TRUE, key |-> "", value |-> value]

_coeff_keys(type) ==
  CASE type = "plane" -> <<"a", "b", "c", "d">>
    [] type = "x-plane" -> <<"x0">>
    [] type = "y-plane" -> <<"y0">>
    [] type = "z-plane" -> <<"z0">>
    [] type = "cylinder" -> <<"x0", "y0", "z0", "r", "dx", "dy", "dz">>
    [] type = "x-cylinder" -> <<"y0", "z0", "r">>
    [] type = "y-cylinder" -> <<"x0", "z0", "r">>
    [] type = "z-cylinder" -> <<"x0", "y0", "r">>
    [] type = "sphere" -> <<"x0", "y0", "z0", "r">>
    [] type = "cone" -> <<"x0", "y0", "z0", "r2", "dx", "dy", "dz">>
    [] type \in {"x-cone", "y-cone", "z-cone"} -> <<"x0", "y0", "z0", "r2">>
    [] type = "quadric" -> <<"a", "b", "c", "d", "e", "f", "g", "h", "j", "k">>
    [] type \in TorusTypes -> <<"x0", "y0", "z0", "a", "b", "c">>

SurfaceCoefficient(type) ==
  CASE type = "plane" ->
         [a |-> K("a"), b |-> K("b"), c |-> K("c"), d |-> K("d")]
    [] type = "x-plane" ->
         [x0 |-> K("x0"), a |-> C(1), b |-> C(0), c |-> C(0), d |-> K("x0")]
    [] type = "y-plane" ->
         [y0 |-> K("y0"), a |-> C(0), b |-> C(1), c |-> C(0), d |-> K("y0")]
    [] type = "z-plane" ->
         [z0 |-> K("z0"), a |-> C(0), b |-> C(0), c |-> C(1), d |-> K("z0")]
    [] type = "cylinder" ->
         [x0 |-> K("x0"), y0 |-> K("y0"), z0 |-> K("z0"), r |-> K("r"),
          dx |-> K("dx"), dy |-> K("dy"), dz |-> K("dz")]
    [] type = "x-cylinder" ->
         [x0 |-> C(0), y0 |-> K("y0"), z0 |-> K("z0"), r |-> K("r"),
          dx |-> C(1), dy |-> C(0), dz |-> C(0)]
    [] type = "y-cylinder" ->
         [x0 |-> K("x0"), y0 |-> C(0), z0 |-> K("z0"), r |-> K("r"),
          dx |-> C(0), dy |-> C(1), dz |-> C(0)]
    [] type = "z-cylinder" ->
         [x0 |-> K("x0"), y0 |-> K("y0"), z0 |-> C(0), r |-> K("r"),
          dx |-> C(0), dy |-> C(0), dz |-> C(1)]
    [] type = "sphere" ->
         [x0 |-> K("x0"), y0 |-> K("y0"), z0 |-> K("z0"), r |-> K("r")]
    [] type = "cone" ->
         [x0 |-> K("x0"), y0 |-> K("y0"), z0 |-> K("z0"), r2 |-> K("r2"),
          dx |-> K("dx"), dy |-> K("dy"), dz |-> K("dz")]
    [] type = "x-cone" ->
         [x0 |-> K("x0"), y0 |-> K("y0"), z0 |-> K("z0"), r2 |-> K("r2"),
          dx |-> C(1), dy |-> C(0), dz |-> C(0)]
    [] type = "y-cone" ->
         [x0 |-> K("x0"), y0 |-> K("y0"), z0 |-> K("z0"), r2 |-> K("r2"),
          dx |-> C(0), dy |-> C(1), dz |-> C(0)]
    [] type = "z-cone" ->
         [x0 |-> K("x0"), y0 |-> K("y0"), z0 |-> K("z0"), r2 |-> K("r2"),
          dx |-> C(0), dy |-> C(0), dz |-> C(1)]
    [] type = "quadric" ->
         [a |-> K("a"), b |-> K("b"), c |-> K("c"), d |-> K("d"), e |-> K("e"),
          f |-> K("f"), g |-> K("g"), h |-> K("h"), j |-> K("j"), k |-> K("k")]
    [] type \in TorusTypes ->
         [x0 |-> K("x0"), y0 |-> K("y0"), z0 |-> K("z0"),
          a |-> K("a"), b |-> K("b"), c |-> K("c")]

_virtual_base(type) ==
  CASE type \in PlaneTypes -> "plane"
    [] type \in {"cylinder", "x-cylinder", "y-cylinder", "z-cylinder"} -> "cylinder"
    [] type \in {"cone", "x-cone", "y-cone", "z-cone"} -> "cone"
    [] type = "sphere" -> "sphere"
    [] type = "quadric" -> "quadric"

\* an instance s carries its class as s.cls, the SurfaceCoefficient
\* descriptors of its family
hasattr(s, attr) == attr \in DOMAIN s.cls

\* SurfaceCoefficient.__get__: the number of a number descriptor, else the
\* slot of instance._coefficients
getattr(s, attr) ==
  IF s.cls[attr].const THEN s.cls[attr].value ELSE s.coeffs[s.cls[attr].key]

\* instance._coefficients[self.value] = value
Assign(coeffs, key, value) ==
  [x \in DOMAIN coeffs |-> IF x = key THEN value ELSE coeffs[x]]

\* SurfaceCoefficient.__set__ on a slot descriptor
setattr(s, attr, value) ==
  [s EXCEPT !.coeffs = Assign(s.coeffs, s.cls[attr].key, value)]

\* a value a client assigns: a number (numbers.Real) or a string
Number(x) == [type |-> "Real", num |-> x, str |-> ""]

Text(t) == [type |-> "str", num |-> 0, str |-> t]

_BOUNDARY_TYPES == {"transmission", "vacuum", "reflective", "periodic", "white"}

\* openmc.checkvalue.check_type: TypeError unless value is of expected_type
check_type(value, expected_type) ==
  IF value.type = expected_type THEN "" ELSE "TypeError"

\* openmc.checkvalue.check_value: ValueError unless value is an accepted one
check_value(value, accepted_values) ==
  IF value \in accepted_values THEN "" ELSE "ValueError"

\* openmc.checkvalue.check_greater_than: ValueError unless value > minimum
check_greater_than(value, minimum) ==
  IF value > minimum THEN "" ELSE "ValueError"

\* what an assignment leaves: the instance and the exception raised, if any
Set(inst, err) == [inst |-> inst, err |-> err]

\* a descriptor's __set__ that stores whatever it is given
SetUnchecked(inst, attr, value) ==
  Set(setattr(inst, attr, value.num), "")

\* SurfaceCoefficient.__set__(instance, value) of the descriptor attr
__set__(inst, attr, value) ==
  IF inst.cls[attr].const THEN Set(inst, "AttributeError")
  ELSE IF check_type(value, "Real") # "" THEN Set(inst, check_type(value, "Real"))
  ELSE Set(setattr(inst, attr, value.num), "")

\* Surface.boundary_type setter
set_boundary_type(inst, value) ==
  IF check_type(value, "str") # "" THEN Set(inst, check_type(value, "str"))
  ELSE IF check_value(value.str, _BOUNDARY_TYPES) # ""
    THEN Set(inst, check_value(value.str, _BOUNDARY_TYPES))
  ELSE Set([inst EXCEPT !.boundary_type = value.str], "")

\* an albedo setter that accepts every number from 0 on
set_albedo_from_zero(inst, value) ==
  IF check_type(value, "Real") # "" THEN Set(inst, check_type(value, "Real"))
  ELSE IF check_greater_than(value.num, -1) # "" THEN Set(inst, "ValueError")
  ELSE Set([inst EXCEPT !.albedo = value.num], "")

\* Surface.albedo setter
set_albedo(inst, value) ==
  IF check_type(value, "Real") # "" THEN Set(inst, check_type(value, "Real"))
  ELSE IF check_greater_than(value.num, 0) # ""
    THEN Set(inst, check_greater_than(value.num, 0))
  ELSE Set([inst EXCEPT !.albedo = value.num], "")

\* instance.attr = value
Assignment(inst, attr, value) ==
  CASE attr = "boundary_type" -> set_boundary_type(inst, value)
    [] attr = "albedo" -> set_albedo(inst, value)
    [] OTHER -> __set__(inst, attr, value)

RECURSIVE SetAll(_, _, _)
\* for key, val in zip(keys, vals): setattr(surf, key, val)
SetAll(s, keys, vals) ==
  IF keys = <<>> THEN s
  ELSE SetAll(setattr(s, Head(keys), Head(vals)), Tail(keys), Tail(vals))

----------------------------------------------------------------------------
(* Canonical coefficients and evaluate                                      *)

\* QuadricMixin._origin
_origin(s) == <<getattr(s, "x0"), getattr(s, "y0"), getattr(s, "z0")>>

\* v / |v| as num / den
Unit(v) == [num |-> v, den |-> ISqrt(Dot3(v, v))]

\* QuadricMixin._axis: (dx, dy, dz) / |(dx, dy, dz)|
_axis(s) == Unit(<<getattr(s, "dx"), getattr(s, "dy"), getattr(s, "dz")>>)

\* the length of the axis of s, if it has one, is a whole number other than
\* 0: the components of _axis are then fractions
WholeAxis(s) ==
  hasattr(s, "dx") =>
    \E n \in 1..(Abs(getattr(s, "dx")) + Abs(getattr(s, "dy")) + Abs(getattr(s, "dz"))) :
      n * n = getattr(s, "dx") * getattr(s, "dx") + getattr(s, "dy") * getattr(s, "dy")
                + getattr(s, "dz") * getattr(s, "dz")

\* _get_base_coeffs of the plane families
PlaneBaseCoeffs(s) ==
  [num |-> <<getattr(s, "a"), getattr(s, "b"), getattr(s, "c"), getattr(s, "d")>>,
   den |-> 1]

\* the body of Cylinder._get_base_coeffs on the origin o, the unit axis
\* d / n and the radius r; the points are p1 = o, p2 = o + d / n, and
\* c is n * (cx, cy, cz) of the code; every coefficient over n * n
CylinderQuadric(o, d, n, r) ==
  LET cx == o[2] * (n * o[3] + d[3]) - (n * o[2] + d[2]) * o[3]
      cy == (n * o[1] + d[1]) * o[3] - o[1] * (n * o[3] + d[3])
      cz == o[1] * (n * o[2] + d[2]) - (n * o[1] + d[1]) * o[2]
  IN [num |-> << d[2] * d[2] + d[3] * d[3],
                 d[1] * d[1] + d[3] * d[3],
                 d[1] * d[1] + d[2] * d[2],
                 -2 * d[1] * d[2],
                 -2 * d[2] * d[3],
                 -2 * d[1] * d[3],
                 2 * (cy * d[3] - cz * d[2]),
                 2 * (cz * d[1] - cx * d[3]),
                 2 * (cx * d[2] - cy * d[1]),
                 cx * cx + cy * cy + cz * cz - Dot3(d, d) * r * r >>,
      den |-> n * n]

\* Cylinder._get_base_coeffs
CylinderBaseCoeffs(s) ==
  CylinderQuadric(_origin(s), _axis(s).num, _axis(s).den, getattr(s, "r"))

\* the body of _get_base_coeffs of XCylinder, YCylinder, ZCylinder
AxisCylinderQuadric(type, x0, y0, z0, r) ==
  [num |->
     CASE type = "x-cylinder" ->
            <<0, 1, 1, 0, 0, 0, 0, -2 * y0, -2 * z0, y0 * y0 + z0 * z0 - r * r>>
       [] type = "y-cylinder" ->
            <<1, 0, 1, 0, 0, 0, -2 * x0, 0, -2 * z0, x0 * x0 + z0 * z0 - r * r>>
       [] type = "z-cylinder" ->
            <<1, 1, 0, 0, 0, 0, -2 * x0, -2 * y0, 0, x0 * x0 + y0 * y0 - r * r>>,
   den |-> 1]

\* _get_base_coeffs of XCylinder, YCylinder, ZCylinder
AxisCylinderBaseCoeffs(s) ==
  AxisCylinderQuadric(s.type, getattr(s, "x0"), getattr(s, "y0"), getattr(s, "z0"),
                      getattr(s, "r"))

\* the body of Sphere._get_base_coeffs
SphereQuadric(x0, y0, z0, r) ==
  [num |-> <<1, 1, 1, 0, 0, 0, -2 * x0, -2 * y0, -2 * z0,
             x0 * x0 + y0 * y0 + z0 * z0 - r * r>>,
   den |-> 1]

\* Sphere._get_base_coeffs
SphereBaseCoeffs(s) ==
  SphereQuadric(getattr(s, "x0"), getattr(s, "y0"), getattr(s, "z0"), getattr(s, "r"))

\* the body of Cone._get_base_coeffs on the origin o, the unit axis d / n
\* (n2 = n * n) and q = 1 + r2 = 1 / cos2: every coefficient over q * n2
ConeQuadric(o, d, n2, q) ==
  LET a == n2 - q * d[1] * d[1]
      b == n2 - q * d[2] * d[2]
      c == n2 - q * d[3] * d[3]
  IN [num |-> << a, b, c,
                 -2 * q * d[1] * d[2],
                 -2 * q * d[2] * d[3],
                 -2 * q * d[1] * d[3],
                 2 * (q * d[1] * (d[2] * o[2] + d[3] * o[3]) - a * o[1]),
                 2 * (q * d[2] * (d[1] * o[1] + d[3] * o[3]) - b * o[2]),
                 2 * (q * d[3] * (d[1] * o[1] + d[2] * o[2]) - c * o[3]),
                 a * o[1] * o[1] + b * o[2] * o[2] + c * o[3] * o[3]
                   - 2 * q * (d[1] * d[2] * o[1] * o[2] + d[2] * d[3] * o[2] * o[3]
                              + d[1] * d[3] * o[1] * o[3]) >>,
      den |-> q * n2]

\* Cone._get_base_coeffs
ConeBaseCoeffs(s) ==
  ConeQuadric(_origin(s), _axis(s).num, Dot3(_axis(s).num, _axis(s).num),
              1 + getattr(s, "r2"))

\* the body of _get_base_coeffs of XCone, YCone, ZCone
AxisConeQuadric(type, x0, y0, z0, r2) ==
  [num |->
     CASE type = "x-cone" ->
            <<-r2, 1, 1, 0, 0, 0, 2 * x0 * r2, -2 * y0, -2 * z0,
              y0 * y0 + z0 * z0 - r2 * x0 * x0>>
       [] type = "y-cone" ->
            <<1, -r2, 1, 0, 0, 0, -2 * x0, 2 * y0 * r2, -2 * z0,
              x0 * x0 + z0 * z0 - r2 * y0 * y0>>
       [] type = "z-cone" ->
            <<1, 1, -r2, 0, 0, 0, -2 * x0, -2 * y0, 2 * z0 * r2,
              x0 * x0 + y0 * y0 - r2 * z0 * z0>>,
   den |-> 1]

\* _get_base_coeffs of XCone, YCone, ZCone
AxisConeBaseCoeffs(s) ==
  AxisConeQuadric(s.type, getattr(s, "x0"), getattr(s, "y0"), getattr(s, "z0"),
                  getattr(s, "r2"))

\* Quadric._get_base_coeffs
QuadricBaseCoeffs(s) ==
  [num |-> [i \in 1..10 |-> getattr(s, _coeff_keys("quadric")[i])], den |-> 1]

\* TorusMixin._get_base_coeffs raises NotImplementedError
HasBaseCoeffs(s) == s.type \notin TorusTypes

_get_base_coeffs(s) ==
  CASE s.type \in PlaneTypes -> PlaneBaseCoeffs(s)
    [] s.type = "cylinder" -> CylinderBaseCoeffs(s)
    [] s.type \in {"x-cylinder", "y-cylinder", "z-cylinder"} -> AxisCylinderBaseCoeffs(s)
    [] s.type = "sphere" -> SphereBaseCoeffs(s)
    [] s.type = "cone" -> ConeBaseCoeffs(s)
    [] s.type \in {"x-cone", "y-cone", "z-cone"} -> AxisConeBaseCoeffs(s)
    [] s.type = "quadric" -> QuadricBaseCoeffs(s)

\* QuadricMixin.get_Abc: the matrix is returned doubled (A2 = 2 A), so that
\* its off-diagonal entries d/2, e/2, f/2 stay integers
get_Abc(co) ==
  [A2 |-> << <<2 * co[1], co[4], co[6]>>,
             <<co[4], 2 * co[2], co[5]>>,
             <<co[6], co[5], 2 * co[3]>> >>,
   bvec |-> <<co[7], co[8], co[9]>>,
   k |-> co[10]]

\* u.T @ (2 A) @ v
Bilinear2(A2, u, v) == Dot3(u, <<Dot3(A2[1], v), Dot3(A2[2], v), Dot3(A2[3], v)>>)

\* x.T @ A @ x + b.T @ x + c on the (A, b, c) of get_Abc
QuadricForm(abc, p) == Quot(Bilinear2(abc.A2, p, p), 2) + Dot3(abc.bvec, p) + abc.k

\* x.T @ A @ x + b.T @ x + c on the base coefficients bc, over their
\* denominator
QuadricValue(bc, p) == [num |-> QuadricForm(get_Abc(bc.num), p), den |-> bc.den]

\* PlaneMixin.evaluate
PlaneEvaluate(s, p) ==
  [num |-> Dot3(<<getattr(s, "a"), getattr(s, "b"), getattr(s, "c")>>, p)
             - getattr(s, "d"),
   den |-> 1]

\* the evaluate methods of the axis-aligned families and the sphere with the
\* radius in the place of its square
AxisEvaluateRadius(type, x, y, z, r, r2) ==
  CASE type = "x-cylinder" -> y * y + z * z - r
    [] type = "y-cylinder" -> x * x + z * z - r
    [] type = "z-cylinder" -> x * x + y * y - r
    [] type = "sphere" -> x * x + y * y + z * z - r
    [] type = "x-cone" -> y * y + z * z - r2 * x * x
    [] type = "y-cone" -> x * x + z * z - r2 * y * y
    [] type = "z-cone" -> x * x + y * y - r2 * z * z

\* the evaluate methods of the axis-aligned families and the sphere, on the
\* offsets x, y, z of the point from the origin
AxisEvaluate(type, x, y, z, r, r2) ==
  CASE type = "x-cylinder" -> y * y + z * z - r * r
    [] type = "y-cylinder" -> x * x + z * z - r * r
    [] type = "z-cylinder" -> x * x + y * y - r * r
    [] type = "sphere" -> x * x + y * y + z * z - r * r
    [] type = "x-cone" -> y * y + z * z - r2 * x * x
    [] type = "y-cone" -> x * x + z * z - r2 * y * y
    [] type = "z-cone" -> x * x + y * y - r2 * z * z

\* evaluate of every family but the tori, as the fraction num / den, den > 0
evaluate(s, p) ==
  CASE s.type = "plane" -> PlaneEvaluate(s, p)
    [] s.type = "x-plane" -> [num |-> p[1] - getattr(s, "x0"), den |-> 1]
    [] s.type = "y-plane" -> [num |-> p[2] - getattr(s, "y0"), den |-> 1]
    [] s.type = "z-plane" -> [num |-> p[3] - getattr(s, "z0"), den |-> 1]
    [] s.type \in {"cylinder", "cone", "quadric"} -> QuadricValue(_get_base_coeffs(s), p)
    [] s.type \in {"x-cylinder", "y-cylinder", "z-cylinder", "sphere"} ->
         [num |-> AxisEvaluate(s.type, p[1] - getattr(s, "x0"), p[2] - getattr(s, "y0"),
                               p[3] - getattr(s, "z0"), getattr(s, "r"), 0),
          den |-> 1]
    [] s.type \in {"x-cone", "y-cone", "z-cone"} ->
         [num |-> AxisEvaluate(s.type, p[1] - getattr(s, "x0"), p[2] - getattr(s, "y0"),
                               p[3] - getattr(s, "z0"), 0, getattr(s, "r2")),
          den |-> 1]

\* sign of T - U * sqrt(q), for integers T, U and q >= 0
SignMinusRoot(T, U, q) ==
  IF U = 0 \/ q = 0 THEN Sgn(T)
  ELSE IF Sgn(T) # Sgn(U) THEN Sgn(Sgn(T) - Sgn(U))
  ELSE IF U > 0 THEN Sgn(T * T - U * U * q)
  ELSE Sgn(U * U * q - T * T)

\* the body of XTorus / YTorus / ZTorus.evaluate on the offset w along the
\* axis and the squared distance q from it:
\*   w*w/(b*b) + (sqrt(q) - a)**2/(c*c) - 1
\* multiplied through by b*b*c*c > 0; its sign
TorusSign(w, q, a, b, c) ==
  SignMinusRoot(w * w * c * c + (q + a * a) * b * b - b * b * c * c, 2 * a * b * b, q)

\* the sign of XTorus / YTorus / ZTorus.evaluate on the offset d of the
\* point from the center
TorusEvaluateAt(type, d, a, b, c) ==
  CASE type = "x-torus" -> TorusSign(d[1], d[2] * d[2] + d[3] * d[3], a, b, c)
    [] type = "y-torus" -> TorusSign(d[2], d[1] * d[1] + d[3] * d[3], a, b, c)
    [] type = "z-torus" -> TorusSign(d[3], d[1] * d[1] + d[2] * d[2], a, b, c)

\* the sign of surface.evaluate(point)
EvaluateSign(s, p) ==
  IF s.type \in TorusTypes
  THEN TorusEvaluateAt(s.type, Sub3(p, _origin(s)), getattr(s, "a"), getattr(s, "b"),
                       getattr(s, "c"))
  ELSE Sgn(evaluate(s, p).num)

----------------------------------------------------------------------------
(* Canonicalization and equivalence                                         *)

\* coeffs[nonzeros] is empty: indexing it with [0] raises IndexError
AllZero(bc) == \A i \in DOMAIN bc.num : IsClose(bc.num[i], 0)

FirstNonzero(bc) ==
  CHOOSE i \in DOMAIN bc.num :
    ~IsClose(bc.num[i], 0) /\ \A k \in 1..(i - 1) : IsClose(bc.num[k], 0)

\* Surface.normalize: every coefficient num[i] / den divided by the absolute
\* value of the first one that is not close to zero, so num[i] / |num[first]|
normalize(bc) == [num |-> bc.num, den |-> Abs(bc.num[FirstNonzero(bc)])]

\* np.allclose of two coefficient tuples given as fractions
AllClose(c1, c2) ==
  /\ DOMAIN c1.num = DOMAIN c2.num
  /\ \A i \in DOMAIN c1.num : IsClose(c1.num[i] * c2.den, c2.num[i] * c1.den)

\* Surface.is_equal: [val |-> the value returned, err |-> the exception raised]
is_equal(self, other) ==
  IF ~HasBaseCoeffs(self) \/ ~HasBaseCoeffs(other)
  THEN [val |-> FALSE, err |-> "NotImplementedError"]
  ELSE IF AllZero(_get_base_coeffs(self)) \/ AllZero(_get_base_coeffs(other))
  THEN [val |-> FALSE, err |-> "IndexError"]
  ELSE [val |-> AllClose(normalize(_get_base_coeffs(self)),
                         normalize(_get_base_coeffs(other))),
        err |-> ""]

----------------------------------------------------------------------------
(* Instances and identifiers.  A machine state m is the part of the state  *)
(* the surface operations read and write:                                  *)
(*   [heap |-> instances, next_id |-> ..., used_ids |-> ...]               *)
(* and an operation returns [m |-> machine state after, ret |-> instance   *)
(* returned (0: none), err |-> exception raised ("": none), exact |-> the   *)
(* values it stored are integers].                                         *)
None == 0

Result(m, ret, err, exact) == [m |-> m, ret |-> ret, err |-> err, exact |-> exact]

\* IDManagerMixin.id setter with uid None: the first identifier from next_id
\* on that is not in use
AutoId(m) ==
  CHOOSE n \in m.next_id..(m.next_id + Cardinality(m.used_ids)) :
    /\ n \notin m.used_ids
    /\ \A k \in m.next_id..(n - 1) : k \in m.used_ids

\* the registry after the identifier n was taken from next_id on
Taken(m, n) == [m |-> [m EXCEPT !.next_id = n, !.used_ids = @ \cup {n}], id |-> n]

\* IDManagerMixin.id setter: returns the machine state and the id assigned
SetId(m, uid) ==
  IF uid = None THEN Taken(m, AutoId(m))
  ELSE [m |-> [m EXCEPT !.used_ids = @ \cup {uid}], id |-> uid]

Last(q) == q[Len(q)]

\* the _coefficients dictionary after the setattr loop over _coeff_keys
Coefficients(keys, vals) ==
  [key \in {keys[i] : i \in DOMAIN keys} |-> vals[CHOOSE i \in DOMAIN keys : keys[i] = key]]

\* PlaneMixin.__init__: self._periodic_surface = None, for the plane
\* families only
PlaneMixinInit(inst) ==
  IF inst.type \in PlaneTypes
  THEN [x \in DOMAIN inst \cup {"periodic_surface"} |->
          IF x = "periodic_surface" THEN None ELSE inst[x]]
  ELSE inst

\* the instance of the family type with the identifier the registry si gave:
\* a new entry at the end of the heap
Construct(si, type, vals, boundary_type, albedo, name) ==
  Result([si.m EXCEPT !.heap =
            Append(@, PlaneMixinInit([type |-> type,
                                      cls |-> SurfaceCoefficient(type),
                                      coeffs |-> Coefficients(_coeff_keys(type), vals),
                                      id |-> si.id,
                                      boundary_type |-> boundary_type,
                                      albedo |-> albedo,
                                      name |-> name]))],
         Len(si.m.heap) + 1, "", TRUE)

\* Surface.__init__ followed by the family's setattr loop over _coeff_keys
NewSurface(m, type, vals, surface_id, boundary_type, albedo, name) ==
  Construct(SetId(m, surface_id), type, vals, boundary_type, albedo, name)

\* Cylinder.from_points: origin p1, axis p2 - p1
from_points(m, p1, p2, r) ==
  NewSurface(m, "cylinder", <<p1[1], p1[2], p1[3], r>> \o Sub3(p2, p1),
             None, "transmission", 1, "")

\* n = np.cross(u, v)
Cross(u, v) ==
  <<u[2] * v[3] - u[3] * v[2], u[3] * v[1] - u[1] * v[3], u[1] * v[2] - u[2] * v[1]>>

\* Plane.from_points without the test for points along a line
PlaneThroughUnchecked(m, p1, n) ==
  NewSurface(m, "plane", n \o <<Dot3(n, p1)>>, None, "transmission", 1, "")

\* Plane.from_points after the normal n was computed: the test for points
\* along a line, then cls(a=a, b=b, c=c, d=np.dot(n, p1))
PlaneThrough(m, p1, n) ==
  IF AllCloseZero(n) THEN Result(m, None, "ValueError", TRUE)
  ELSE NewSurface(m, "plane", n \o <<Dot3(n, p1)>>, None, "transmission", 1, "")

\* Plane.from_points(p1, p2, p3)
PlaneFromPoints(m, p1, p2, p3) == PlaneThrough(m, p1, Cross(Sub3(p2, p1), Sub3(p3, p1)))

\* self._periodic_surface = periodic_surface
\* periodic_surface._periodic_surface = self
Pair(h, self, periodic_surface) ==
  [i \in DOMAIN h |->
     IF i = periodic_surface THEN [h[i] EXCEPT !.periodic_surface = self]
     ELSE IF i = self THEN [h[i] EXCEPT !.periodic_surface = periodic_surface]
     ELSE h[i]]

\* PlaneMixin.periodic_surface setter
set_periodic_surface(m, self, periodic_surface) ==
  IF m.heap[periodic_surface].type \notin PlaneTypes THEN Result(m, None, "TypeError", TRUE)
  ELSE Result([m EXCEPT !.heap = Pair(m.heap, self, periodic_surface)], None, "", TRUE)

\* Surface.to_xml_element: the attributes of the element; name and boundary
\* are "" and albedo is None when the attribute is not set, and coeffs are
\* the values of the _coeff_keys, each over den
Element(inst, coeffs) ==
  [id |-> inst.id,
   name |-> inst.name,
   type |-> inst.type,
   boundary |-> IF inst.boundary_type # "transmission" THEN inst.boundary_type ELSE "",
   albedo |-> IF /\ inst.boundary_type \in {"reflective", "periodic", "white"}
                 /\ ~IsClose(inst.albedo, 1)
              THEN inst.albedo ELSE None,
   coeffs |-> coeffs]

\* the Quadric a cylinder or cone is written as, constructed without a
\* surface_id: the identifier is the next free one
QuadRepFresh(si, inst, bc) ==
  [m |-> si.m,
   quad |-> [type |-> "quadric", id |-> AutoId(si.m), boundary_type |-> inst.boundary_type,
             albedo |-> inst.albedo, name |-> inst.name, coeffs |-> bc]]

\* quad_rep = Quadric(*self._get_base_coeffs(), **kwargs) with the
\* identifier the registry si gave; its coefficients are bc.num over bc.den
QuadRep(si, inst, bc) ==
  [m |-> si.m,
   quad |-> [type |-> "quadric", id |-> si.id, boundary_type |-> inst.boundary_type,
             albedo |-> inst.albedo, name |-> inst.name, coeffs |-> bc]]

\* what to_xml_element leaves and returns: the registry, the Quadric
\* written in the place of the surface, if any, and the element
Written(q) == [m |-> q.m, quad |-> q.quad, element |-> Element(q.quad, q.quad.coeffs)]

\* to_xml_element of Cylinder and Cone, of PlaneMixin (which adds
\* periodic_surface_id, not modelled, to a periodic plane with a partner)
\* and of Surface
to_xml_element(m, s) ==
  IF m.heap[s].type \in {"cylinder", "cone"}
  THEN Written(QuadRep(SetId(m, m.heap[s].id), m.heap[s], _get_base_coeffs(m.heap[s])))
  ELSE [m |-> m, quad |-> None,
        element |-> Element(m.heap[s],
                            [num |-> [i \in DOMAIN _coeff_keys(m.heap[s].type) |->
                                        m.heap[s].coeffs[_coeff_keys(m.heap[s].type)[i]]],
                             den |-> 1])]

\* the memo of Surface.clone maps an instance to its clone
EmptyMemo == [x \in {} |-> None]

MemoPut(memo, key, val) == [x \in DOMAIN memo \cup {key} |-> IF x = key THEN val ELSE memo[x]]

\* clone = deepcopy(self); clone.id = None; memo[self] = clone, with the
\* registry si after the identifier was given
Cloned(si, s, memo) ==
  [m |-> [si.m EXCEPT !.heap = Append(@, [si.m.heap[s] EXCEPT !.id = si.id])],
   memo |-> MemoPut(memo, s, Len(si.m.heap) + 1),
   ret |-> Len(si.m.heap) + 1]

\* the branch that instantiates a clone, without clone.id = None: the copy
\* keeps the identifier of self
CloneMissingSameId(m, s, memo) == Cloned([m |-> m, id |-> m.heap[s].id], s, memo)

\* Surface.clone, the branch that instantiates a clone
CloneMissing(m, s, memo) == Cloned(SetId(m, None), s, memo)

\* Surface.clone that never looks self up in the memo
SurfaceCloneFresh(m, s, memo) == CloneMissing(m, s, memo)

\* Surface.clone with a memo dictionary: returns the machine state, the memo
\* after the call and the instance returned
SurfaceClone(m, s, memo) ==
  IF s \notin DOMAIN memo
  THEN CloneMissing(m, s, memo)
  ELSE [m |-> m, memo |-> memo, ret |-> memo[s]]

\* self.clone(): memo is None, a new dictionary is used
CloneNoMemo(m, s) == SurfaceClone(m, s, EmptyMemo)

\* surf = self.clone(), whatever inplace is
SelfOrCloneAlways(m, s, inplace) == CloneNoMemo(m, s)

\* surf = self if inplace else self.clone()
SelfOrClone(m, s, inplace) ==
  IF inplace THEN [m |-> m, memo |-> EmptyMemo, ret |-> s] ELSE CloneNoMemo(m, s)

\* the instance ref of m replaced by the record inst
Store(m, ref, inst) == [m EXCEPT !.heap[ref] = inst]

\* a method returns the instance sc.ret after leaving it as inst
Return(sc, inst) == Result(Store(sc.m, sc.ret, inst), sc.ret, "", TRUE)

----------------------------------------------------------------------------
(* translate.  sc is the result of "surf = self if inplace else             *)
(* self.clone()": the machine state sc.m and the instance sc.ret.           *)

\* d + np.dot([a, b, c], vector)
PlaneOffset(co, vector) == co[4] + Dot3(<<co[1], co[2], co[3]>>, vector)

\* setattr(surf, surf._coeff_keys[-1], d); return surf
PlaneShift(sc, d) ==
  Return(sc, setattr(sc.m.heap[sc.ret], Last(_coeff_keys(sc.m.heap[sc.ret].type)), d))

\* PlaneMixin.translate
PlaneTranslate(m, s, vector, inplace) ==
  IF AllCloseZero(vector) THEN Result(m, s, "", TRUE)
  ELSE PlaneShift(SelfOrClone(m, s, inplace),
                  PlaneOffset(PlaneBaseCoeffs(m.heap[s]).num, vector))

\* a loop body that passes on every attribute
TrySetattrNever(inst, xi, vi) == inst

\* try: setattr(surf, xi, val + vi)  except AttributeError: pass
TrySetattr(inst, xi, vi) ==
  IF inst.cls[xi].const THEN inst ELSE setattr(inst, xi, getattr(inst, xi) + vi)

\* the loop of QuadricMixin.translate over ('x0', 'y0', 'z0')
ShiftOrigin(sc, vector) ==
  Return(sc, TrySetattr(TrySetattr(TrySetattr(sc.m.heap[sc.ret], "x0", vector[1]),
                                   "y0", vector[2]),
                        "z0", vector[3]))

\* bvec - 2 vector.T @ A
ShiftLinear(abc, vector) ==
  <<abc.bvec[1] - Dot3(vector, <<abc.A2[1][1], abc.A2[2][1], abc.A2[3][1]>>),
    abc.bvec[2] - Dot3(vector, <<abc.A2[1][2], abc.A2[2][2], abc.A2[3][2]>>),
    abc.bvec[3] - Dot3(vector, <<abc.A2[1][3], abc.A2[2][3], abc.A2[3][3]>>)>>

\* the constant with the sign of its last term changed:
\* cnst + vector.T @ A @ vector + bvec.T @ vector
ShiftConstantSlip(abc, vector) ==
  abc.k + Quot(Bilinear2(abc.A2, vector, vector), 2) + Dot3(abc.bvec, vector)

\* cnst + vector.T @ A @ vector - bvec.T @ vector
ShiftConstant(abc, vector) ==
  abc.k + Quot(Bilinear2(abc.A2, vector, vector), 2) - Dot3(abc.bvec, vector)

\* the branch of QuadricMixin.translate for a surface without x0, on the
\* (A, bvec, cnst) of self.get_Abc()
ShiftQuadric(sc, abc, vector) ==
  Return(sc, SetAll(sc.m.heap[sc.ret], <<"g", "h", "j", "k">>,
                    ShiftLinear(abc, vector) \o <<ShiftConstant(abc, vector)>>))

\* QuadricMixin.translate
QuadricTranslate(m, s, vector, inplace) ==
  IF AllCloseZero(vector) THEN Result(m, s, "", TRUE)
  ELSE IF hasattr(m.heap[s], "x0") THEN ShiftOrigin(SelfOrClone(m, s, inplace), vector)
  ELSE ShiftQuadric(SelfOrClone(m, s, inplace),
                    get_Abc(_get_base_coeffs(m.heap[s]).num), vector)

\* surf.x0 += vector[0]; surf.y0 += vector[1]; surf.z0 += vector[2]
ShiftCenter(inst, vector) ==
  setattr(setattr(setattr(inst, "x0", getattr(inst, "x0") + vector[1]),
                  "y0", getattr(inst, "y0") + vector[2]),
          "z0", getattr(inst, "z0") + vector[3])

\* TorusMixin.translate after "surf = self if inplace else self.clone()"
TorusShift(sc, vector) == Return(sc, ShiftCenter(sc.m.heap[sc.ret], vector))

\* TorusMixin.translate
TorusTranslate(m, s, vector, inplace) == TorusShift(SelfOrClone(m, s, inplace), vector)

\* surface.translate(vector, inplace), by the family's mixin
Translate(m, s, vector, inplace) ==
  CASE m.heap[s].type \in PlaneTypes -> PlaneTranslate(m, s, vector, inplace)
    [] m.heap[s].type \in TorusTypes -> TorusTranslate(m, s, vector, inplace)
    [] OTHER -> QuadricTranslate(m, s, vector, inplace)

----------------------------------------------------------------------------
(* rotate.  Rmat is the matrix the method works with: the rotation argument *)
(* itself when it is two-dimensional.  t1 is the result of the translation  *)
(* to the pivot.                                                            *)

\* numerators of Rmat @ (2 A) @ Rmat.T, over Rmat.den * Rmat.den
RotA2(R, A2) ==
  [i \in 1..3 |-> [j \in 1..3 |-> Bilinear2(A2, R.m[i], R.m[j])]]

\* the result r with its exactness replaced
WithExact(r, exact) == Result(r.m, r.ret, r.err, exact)

\* surf = Plane(a=a, b=b, c=c, d=d, **kwargs) without surface_id in kwargs
PlaneBuildFresh(m, surf, co, R, inplace) ==
  WithExact(NewSurface(m, "plane",
                       Quot3(MatVec(R, <<co[1], co[2], co[3]>>), R.den) \o <<co[4]>>,
                       None, surf.boundary_type, surf.albedo, surf.name),
            Exact3(MatVec(R, <<co[1], co[2], co[3]>>), R.den))

\* surf = Plane(a=a, b=b, c=c, d=d, **kwargs) with a, b, c = Rmat @ [a, b, c],
\* on the instance surf and its base coefficients co
PlaneBuild(m, surf, co, R, inplace) ==
  WithExact(NewSurface(m, "plane",
                       Quot3(MatVec(R, <<co[1], co[2], co[3]>>), R.den) \o <<co[4]>>,
                       IF inplace THEN surf.id ELSE None,
                       surf.boundary_type, surf.albedo, surf.name),
            Exact3(MatVec(R, <<co[1], co[2], co[3]>>), R.den))

\* return surf.translate(pivot, inplace=inplace) on the instance built as n
PlaneBack(n, pivot, inplace) ==
  WithExact(PlaneTranslate(n.m, n.ret, pivot, inplace), n.exact)

\* PlaneMixin.rotate after the translation to the pivot
PlaneTurn(t1, R, pivot, inplace) ==
  PlaneBack(PlaneBuild(t1.m, t1.m.heap[t1.ret], PlaneBaseCoeffs(t1.m.heap[t1.ret]).num,
                       R, inplace),
            pivot, inplace)

\* PlaneMixin.rotate
PlaneRotate(m, s, R, pivot, inplace) ==
  PlaneTurn(PlaneTranslate(m, s, Neg3(pivot), inplace), R, pivot, inplace)

\* surf = base_cls(**kwargs) without the coefficients of t in kwargs: the
\* defaults of Cylinder.__init__ and Cone.__init__
RebuildDefaults(m, t, base, inplace) ==
  NewSurface(m, base, <<0, 0, 0, 1, 0, 0, 1>>, IF inplace THEN t.id ELSE None,
             t.boundary_type, t.albedo, t.name)

\* surf = base_cls(**kwargs) from the attributes of the instance t
Rebuild(m, t, base, inplace) ==
  NewSurface(m, base,
             [i \in DOMAIN _coeff_keys(base) |-> getattr(t, _coeff_keys(base)[i])],
             IF inplace THEN t.id ELSE None,
             t.boundary_type, t.albedo, t.name)

\* the general instance QuadricMixin.rotate works on: tsurf itself or its
\* clone when type(tsurf) is its _virtual_base, else a new instance of the
\* _virtual_base built from tsurf's attributes
Generalize(m, tsurf, inplace) ==
  IF m.heap[tsurf].type = _virtual_base(m.heap[tsurf].type)
  THEN SelfOrClone(m, tsurf, inplace)
  ELSE Rebuild(m, m.heap[tsurf], _virtual_base(m.heap[tsurf].type), inplace)

\* an instance under rotation: the record and whether the values stored in
\* it so far are exact
Turning(inst, exact) == [inst |-> inst, exact |-> exact]

\* for key, val in zip(keys, w / den): setattr(surf, key, val)
SetVector(a, keys, w, den) ==
  Turning(SetAll(a.inst, keys, Quot3(w, den)), a.exact /\ Exact3(w, den))

\* if hasattr(surf, 'dx'): dx, dy, dz = Rmat @ tsurf._axis
TurnAxis(a, tsurf, R) ==
  IF hasattr(a.inst, "dx")
  THEN SetVector(a, <<"dx", "dy", "dz">>, MatVec(R, _axis(tsurf).num),
                 R.den * _axis(tsurf).den)
  ELSE a

\* a, b, c = np.diagonal(Arot); d, e, f = 2 Arot[0, 1], 2 Arot[1, 2],
\* 2 Arot[0, 2]; g, h, j = Rmat @ bvec, with N = Rmat @ (2 A) @ Rmat.T over
\* D2 and ghj over den
Rotated(N, D2, ghj, den, k) ==
  [vals |-> <<Quot(N[1][1], 2 * D2), Quot(N[2][2], 2 * D2), Quot(N[3][3], 2 * D2),
              Quot(N[1][2], D2), Quot(N[2][3], D2), Quot(N[1][3], D2),
              Quot(ghj[1], den), Quot(ghj[2], den), Quot(ghj[3], den),
              k>>,
   exact |-> /\ \A i \in 1..3 : Divides(2 * D2, N[i][i])
             /\ Divides(D2, N[1][2]) /\ Divides(D2, N[2][3]) /\ Divides(D2, N[1][3])
             /\ Exact3(ghj, den)]

\* QuadricMixin.rotate, the part for a surface without x0: the rotated
\* coefficients a..k from the (A, bvec, k) of surf.get_Abc()
RotateCoeffs(R, abc) ==
  Rotated(RotA2(R, abc.A2), R.den * R.den, MatVec(R, abc.bvec), R.den, abc.k)

\* for key, val in zip(surf._coeff_keys, (a, ..., k)): setattr(surf, key, val)
SetCoeffs(a, rc) ==
  Turning(SetAll(a.inst, _coeff_keys(a.inst.type), rc.vals), a.exact /\ rc.exact)

\* if hasattr(surf, 'x0'): x0, y0, z0 = Rmat @ tsurf._origin
\* else: the quadric coefficients are rotated
TurnOrigin(a, tsurf, R) ==
  IF hasattr(a.inst, "x0")
  THEN SetVector(a, <<"x0", "y0", "z0">>, MatVec(R, _origin(tsurf)), R.den)
  ELSE SetCoeffs(a, RotateCoeffs(R, get_Abc(_get_base_coeffs(a.inst).num)))

\* the instance g.ret left as the rotated record a.inst
Turned(g, a) == Result(Store(g.m, g.ret, a.inst), g.ret, "", a.exact)

\* the rotation of the general instance g.ret from the translated tsurf
QuadricTurn(g, tsurf, R) ==
  Turned(g, TurnOrigin(TurnAxis(Turning(g.m.heap[g.ret], TRUE), tsurf, R), tsurf, R))

\* return surf.translate(pivot, inplace=inplace) on the rotated instance
QuadricBack(n, pivot, inplace) ==
  WithExact(QuadricTranslate(n.m, n.ret, pivot, inplace), n.exact)

\* QuadricMixin.rotate after the translation to the pivot
QuadricAtPivot(t1, R, pivot, inplace) ==
  QuadricBack(QuadricTurn(Generalize(t1.m, t1.ret, inplace), t1.m.heap[t1.ret], R),
              pivot, inplace)

\* QuadricMixin.rotate
QuadricRotate(m, s, R, pivot, inplace) ==
  QuadricAtPivot(QuadricTranslate(m, s, Neg3(pivot), inplace), R, pivot, inplace)

\* close(Rmat, -1.0) | close(Rmat, 0.0) | close(Rmat, 1.0), every entry
TrivialMatrix(R) ==
  \A i \in 1..3 : \A j \in 1..3 : R.m[i][j] \in {-R.den, 0, R.den}

TorusIndex(type) ==
  CASE type = "x-torus" -> 1 [] type = "y-torus" -> 2 [] type = "z-torus" -> 3

TorusClass(i) == CASE i = 1 -> "x-torus" [] i = 2 -> "y-torus" [] i = 3 -> "z-torus"

\* np.where(np.isclose(np.abs(above_center - center), 1.0))[0]: the
\* difference above_center - center is the column index of Rmat
AxisHits(R, index) == {i \in 1..3 : Abs(R.m[i][index]) = R.den}

\* surf = cls(x0=center[0], y0=center[1], z0=center[2], **kwargs) with
\* cls = [XTorus, YTorus, ZTorus][new_index], new_index the first of hits
TorusBuild(m, surf, hits, center, inplace) ==
  IF hits = {} THEN Result(m, None, "IndexError", TRUE)
  ELSE NewSurface(m, TorusClass(CHOOSE i \in hits : \A k \in hits : i <= k),
                  center \o <<getattr(surf, "a"), getattr(surf, "b"), getattr(surf, "c")>>,
                  IF inplace THEN surf.id ELSE None,
                  surf.boundary_type, surf.albedo, surf.name)

\* return surf.translate(pivot, inplace=inplace) on the torus built as n,
\* unless its construction raised
TorusBack(n, pivot, inplace) ==
  IF n.err # "" THEN n ELSE TorusTranslate(n.m, n.ret, pivot, inplace)

\* TorusMixin.rotate after the translation to the pivot
TorusTurn(t1, R, pivot, inplace) ==
  TorusBack(TorusBuild(t1.m, t1.m.heap[t1.ret],
                       AxisHits(R, TorusIndex(t1.m.heap[t1.ret].type)),
                       Quot3(MatVec(R, _origin(t1.m.heap[t1.ret])), R.den),
                       inplace),
            pivot, inplace)

\* TorusMixin.rotate with the test of the matrix after the translation to
\* the pivot
TorusRotateLate(m, s, R, pivot, inplace) ==
  IF ~TrivialMatrix(R)
  THEN Result(TorusTranslate(m, s, Neg3(pivot), inplace).m, None,
              "NotImplementedError", TRUE)
  ELSE TorusTurn(TorusTranslate(m, s, Neg3(pivot), inplace), R, pivot, inplace)

\* TorusMixin.rotate
TorusRotate(m, s, R, pivot, inplace) ==
  IF ~TrivialMatrix(R) THEN Result(m, None, "NotImplementedError", TRUE)
  ELSE TorusTurn(TorusTranslate(m, s, Neg3(pivot), inplace), R, pivot, inplace)

\* surface.rotate(rotation, pivot, order, inplace), by the family's mixin
Rotate(m, s, R, pivot, inplace) ==
  CASE m.heap[s].type \in PlaneTypes -> PlaneRotate(m, s, R, pivot, inplace)
    [] m.heap[s].type \in TorusTypes -> TorusRotate(m, s, R, pivot, inplace)
    [] OTHER -> QuadricRotate(m, s, R, pivot, inplace)

----------------------------------------------------------------------------
(* Bounding boxes.  A coordinate of a corner is [inf |-> 0, num |-> x] for   *)
(* the number x, and [inf |-> -1 or 1, num |-> 0] for -np.inf and np.inf.    *)

Fin(x) == [inf |-> 0, num |-> x]

NegInf == [inf |-> -1, num |-> 0]

PosInf == [inf |-> 1, num |-> 0]

BoundingBox(lower_left, upper_right) ==
  [lower_left |-> lower_left, upper_right |-> upper_right]

\* BoundingBox.infinite()
Infinite == BoundingBox(<<NegInf, NegInf, NegInf>>, <<PosInf, PosInf, PosInf>>)

\* the corners -extent and extent, wherever the centre is
AroundOrigin(centre, extent) ==
  BoundingBox([i \in 1..3 |-> Fin(-extent[i])], [i \in 1..3 |-> Fin(extent[i])])

\* the corners centre - extent and centre + extent
Around(centre, extent) ==
  BoundingBox([i \in 1..3 |-> Fin(centre[i] - extent[i])],
              [i \in 1..3 |-> Fin(centre[i] + extent[i])])

\* the box around centre with radius r, unbounded along the axis
Along(axis, centre, r) ==
  BoundingBox([i \in 1..3 |-> IF i = axis THEN NegInf ELSE Fin(centre[i] - r)],
              [i \in 1..3 |-> IF i = axis THEN PosInf ELSE Fin(centre[i] + r)])

\* a Cylinder.bounding_box('-') that bounds no dimension
CylinderBoxUnbounded(origin, axis, r) == Infinite

\* Cylinder.bounding_box('-'): xi - r and xi + r where the component dxi of
\* _axis is close to 0, else -np.inf and np.inf
CylinderBox(origin, axis, r) ==
  BoundingBox([i \in 1..3 |-> IF IsClose(axis.num[i], 0) THEN Fin(origin[i] - r)
                                                        ELSE NegInf],
              [i \in 1..3 |-> IF IsClose(axis.num[i], 0) THEN Fin(origin[i] + r)
                                                        ELSE PosInf])

\* np.isclose(abs(x / sqrt(x*x + y*y + z*z)), 1., rtol=0., atol=1e-12) for
\* whole numbers of which y or z is 0: with t = abs(y) + abs(z) the quotient
\* is within 1e-12 of 1 when t = 0 or abs(x) / t >= NearlyAligned, and for
\* x = y = z = 0 it is nan, which is close to nothing
IsUnit(x, y, z) ==
  /\ x # 0
  /\ Abs(y) + Abs(z) # 0 => Abs(x) \div (Abs(y) + Abs(z)) >= NearlyAligned

\* [d/val if not np.isclose(val, 0.) else np.nan for val in (a, b, c)], with
\* inf in the place of the nan's
Vals(co, inf) ==
  [i \in 1..3 |-> IF IsClose(co[i], 0) THEN inf
                  ELSE Fin(Quot(co[4] * Sgn(co[i]), Abs(co[i])))]

\* the quotients d/val of Vals are whole numbers, and IsUnit is exact
WholeVals(co) ==
  /\ \A i \in 1..3 : co[i] # 0 => Divides(Abs(co[i]), co[4])
  /\ \E i \in 1..3 : co[i] = 0

\* PlaneMixin.bounding_box on the base coefficients co = (a, b, c, d)
PlaneBox(co, side) ==
  IF ~(IsUnit(co[1], co[2], co[3]) \/ IsUnit(co[2], co[1], co[3])
        \/ IsUnit(co[3], co[1], co[2]))
    THEN Infinite
  ELSE IF (side = "-") = (co[1] + co[2] + co[3] > 0)
    THEN BoundingBox(<<NegInf, NegInf, NegInf>>, Vals(co, PosInf))
  ELSE BoundingBox(Vals(co, NegInf), <<PosInf, PosInf, PosInf>>)

\* bounding_box('-') of the families that override Surface.bounding_box
NegativeBox(s) ==
  CASE s.type = "cylinder" -> CylinderBox(_origin(s), _axis(s), getattr(s, "r"))
    [] s.type = "x-cylinder" -> Along(1, _origin(s), getattr(s, "r"))
    [] s.type = "y-cylinder" -> Along(2, _origin(s), getattr(s, "r"))
    [] s.type = "z-cylinder" -> Along(3, _origin(s), getattr(s, "r"))
    [] s.type = "sphere" ->
         Around(_origin(s), <<getattr(s, "r"), getattr(s, "r"), getattr(s, "r")>>)
    [] s.type = "x-torus" ->
         Around(_origin(s), <<getattr(s, "b"), getattr(s, "a") + getattr(s, "c"),
                              getattr(s, "a") + getattr(s, "c")>>)
    [] s.type = "y-torus" ->
         Around(_origin(s), <<getattr(s, "a") + getattr(s, "c"), getattr(s, "b"),
                              getattr(s, "a") + getattr(s, "c")>>)
    [] s.type = "z-torus" ->
         Around(_origin(s), <<getattr(s, "a") + getattr(s, "c"),
                              getattr(s, "a") + getattr(s, "c"), getattr(s, "b")>>)

\* a bounding_box that answers the box of the negative side for both sides
bounding_box_either(s, side) ==
  IF s.type \in {"cone", "x-cone", "y-cone", "z-cone", "quadric"} THEN Infinite
  ELSE NegativeBox(s)

\* surface.bounding_box(side); the cones and Quadric inherit
\* Surface.bounding_box
bounding_box(s, side) ==
  IF s.type \in PlaneTypes THEN PlaneBox(PlaneBaseCoeffs(s).num, side)
  ELSE IF s.type \in {"cone", "x-cone", "y-cone", "z-cone", "quadric"} THEN Infinite
  ELSE IF side = "-" THEN NegativeBox(s)
  ELSE Infinite

----------------------------------------------------------------------------
(* Half-spaces and regions.  A half-space is the value                      *)
(* [surface |-> instance, side |-> "+" or "-"]; an Intersection or Union is *)
(* [op |-> its class, nodes |-> the sequence of its members].               *)

Halfspace(surface, side) == [surface |-> surface, side |-> side]

Intersection(nodes) == [op |-> "Intersection", nodes |-> nodes]

Union(nodes) == [op |-> "Union", nodes |-> nodes]

isinstance(x, cls) == "op" \in DOMAIN x /\ x.op = cls

\* Halfspace.__and__ without the flattening of an Intersection operand
HalfspaceAndNested(self, other) == Intersection(<<self, other>>)

\* Halfspace.__and__
HalfspaceAnd(self, other) ==
  IF isinstance(other, "Intersection")
  THEN Intersection(<<self>> \o other.nodes)
  ELSE Intersection(<<self, other>>)

\* Halfspace.__or__
HalfspaceOr(self, other) ==
  IF isinstance(other, "Union")
  THEN Union(<<self>> \o other.nodes)
  ELSE Union(<<self, other>>)

\* Halfspace.__invert__ that answers the negative side whatever the side is
HalfspaceInvertNeg(self) == Halfspace(self.surface, "-")

\* Halfspace.__invert__, through Surface.__neg__ and Surface.__pos__
HalfspaceInvert(self) ==
  IF self.side = "+" THEN Halfspace(self.surface, "-") ELSE Halfspace(self.surface, "+")

\* Halfspace.__contains__ with the positive side open: val > 0
HalfspaceContainsOpen(h, self, point) ==
  IF self.side = "+" THEN EvaluateSign(h[self.surface], point) > 0
  ELSE EvaluateSign(h[self.surface], point) < 0

\* Halfspace.__contains__ on the instances of heap h
HalfspaceContains(h, self, point) ==
  IF self.side = "+" THEN EvaluateSign(h[self.surface], point) >= 0
  ELSE EvaluateSign(h[self.surface], point) < 0

\* what a method of Halfspace leaves: the machine state, the memo, the
\* surface instance of the half-space returned, that half-space, the
\* exception raised and the exactness of the values stored
Outcome(m, memo, ret, side, err, exact) ==
  [m |-> m, memo |-> memo, ret |-> ret, out |-> Halfspace(ret, side), err |-> err,
   exact |-> exact]

\* clone.surface = self.surface.clone(memo); return clone
CloneOnto(c, side) == Outcome(c.m, c.memo, c.ret, side, "", TRUE)

\* Halfspace.clone: with memo None the memo becomes the class dict, and
\* Surface.clone's "self not in memo" raises TypeError
HalfspaceClone(m, self, memo, noMemo) ==
  IF noMemo THEN Outcome(m, memo, None, "", "TypeError", TRUE)
  ELSE CloneOnto(SurfaceClone(m, self.surface, memo), self.side)

\* memo[key] = t and return Halfspace(memo[key]) with the default side
MemoizePositive(t, memo, key, side) ==
  IF t.err # "" THEN Outcome(t.m, memo, None, "", t.err, t.exact)
  ELSE Outcome(t.m, MemoPut(memo, key, t.ret), t.ret, "+", "", t.exact)

\* memo[key] = t, the surface returned by translate or rotate, and
\* return type(self)(memo[key], self.side); nothing is stored or returned
\* when the surface method raised
Memoize(t, memo, key, side) ==
  IF t.err # "" THEN Outcome(t.m, memo, None, "", t.err, t.exact)
  ELSE Outcome(t.m, MemoPut(memo, key, t.ret), t.ret, side, "", t.exact)

\* key in memo: return type(self)(memo[key], self.side)
Memoized(m, memo, key, side) == Outcome(m, memo, memo[key], side, "", TRUE)

\* Halfspace.translate without the test of the key
HalfspaceTranslateUnkeyed(m, self, vector, inplace, memo) ==
  Memoize(Translate(m, self.surface, vector, inplace), memo,
          <<self.surface, vector>>, self.side)

\* Halfspace.translate; memo None is a new dictionary
HalfspaceTranslate(m, self, vector, inplace, memo) ==
  IF <<self.surface, vector>> \notin DOMAIN memo
  THEN Memoize(Translate(m, self.surface, vector, inplace), memo,
               <<self.surface, vector>>, self.side)
  ELSE Memoized(m, memo, <<self.surface, vector>>, self.side)

\* Halfspace.rotate; memo None is a new dictionary
HalfspaceRotate(m, self, R, pivot, order, inplace, memo) ==
  IF <<self.surface, R, pivot, order, inplace>> \notin DOMAIN memo
  THEN Memoize(Rotate(m, self.surface, R, pivot, inplace), memo,
               <<self.surface, R, pivot, order, inplace>>, self.side)
  ELSE Memoized(m, memo, <<self.surface, R, pivot, order, inplace>>, self.side)

----------------------------------------------------------------------------
(* Inputs                                                                   *)

Points == {<<x, y, z>> : x \in -MaxPoint..MaxPoint, y \in -MaxPoint..MaxPoint,
                         z \in -MaxPoint..MaxPoint}

\* the lattice points of the cube on the lines through the origin and a
\* vertex, an edge midpoint or a face centre of the unit cube
Probes ==
  {p \in Points : \E k \in 0..MaxPoint : \A i \in 1..3 : Abs(p[i]) \in {0, k}}

\* the vectors surfaces are translated by
Vectors ==
  {<<k * d[1], k * d[2], k * d[3]>> :
     k \in -MaxCoord..MaxCoord, d \in {<<1, 0, 0>>, <<1, -1, 2>>}}

\* the vectors half-spaces are translated by
Offsets == {<<k, -k, 2 * k>> : k \in -MaxCoord..MaxCoord}

\* the vectors half-spaces are translated by through one dictionary
MemoVectors == {<<1, -1, 2>>, <<1, 0, 0>>}

\* the points planes are constructed through
Corners == {<<x, y, z>> : x \in 0..MaxPoint, y \in 0..MaxPoint, z \in 0..MaxPoint}

\* the constants the coefficients of a quadric are multiplied by
Scales == (-MaxScale..MaxScale) \ {0}

Pivots == {<<0, 0, 0>>, <<0, -1, 1>>}

Matrix(m, den) == [m |-> m, den |-> den]

\* rotations by 90 degrees about z and x, and the rotation about z by the
\* angle with cosine 3/5 and sine 4/5
Rotations ==
  { Matrix(<< <<0, -1, 0>>, <<1, 0, 0>>, <<0, 0, 1>> >>, 1),
    Matrix(<< <<1, 0, 0>>, <<0, 0, -1>>, <<0, 1, 0>> >>, 1),
    Matrix(<< <<3, -4, 0>>, <<4, 3, 0>>, <<0, 0, 5>> >>, 5) }

\* the product of two matrices with denominator 1
MatMul(A, B) ==
  Matrix([i \in 1..3 |-> [j \in 1..3 |->
            A.m[i][1] * B.m[1][j] + A.m[i][2] * B.m[2][j] + A.m[i][3] * B.m[3][j]]], 1)

\* get_rotation_matrix(rotation, order='xyz') for angles that are multiples
\* of 90 degrees, given in quarter turns: the cosines and sines are then
\* -1, 0 or 1 (within 1e-16), and the matrix is R['z'] @ R['y'] @ R['x']
get_rotation_matrix(rotation) ==
  LET cos(q) == <<1, 0, -1, 0>>[(q % 4) + 1]
      sin(q) == <<0, 1, 0, -1>>[(q % 4) + 1]
      Rx == Matrix(<< <<1, 0, 0>>,
                      <<0, cos(rotation[1]), -sin(rotation[1])>>,
                      <<0, sin(rotation[1]), cos(rotation[1])>> >>, 1)
      Ry == Matrix(<< <<cos(rotation[2]), 0, sin(rotation[2])>>,
                      <<0, 1, 0>>,
                      <<-sin(rotation[2]), 0, cos(rotation[2])>> >>, 1)
      Rz == Matrix(<< <<cos(rotation[3]), -sin(rotation[3]), 0>>,
                      <<sin(rotation[3]), cos(rotation[3]), 0>>,
                      <<0, 0, 1>> >>, 1)
  IN MatMul(Rz, MatMul(Ry, Rx))

\* rotation = (90, 0, 0), (0, 90, 0) and (0, 0, 90)
QuarterTurns ==
  {get_rotation_matrix(a) : a \in {<<1, 0, 0>>, <<0, 1, 0>>, <<0, 0, 1>>}}

\* 3x3 matrices that are not orthonormal: diag(2, 1, 1), the all-ones matrix
\* and the zero matrix
NonOrthonormal ==
  { Matrix(<< <<2, 0, 0>>, <<0, 1, 0>>, <<0, 0, 1>> >>, 1),
    Matrix(<< <<1, 1, 1>>, <<1, 1, 1>>, <<1, 1, 1>> >>, 1),
    Matrix(<< <<0, 0, 0>>, <<0, 0, 0>>, <<0, 0, 0>> >>, 1) }

\* the axis vectors general cylinders and cones are constructed with
Axes == {<<0, 0, 0>>, <<0, 0, 1>>, <<2, 0, 0>>, <<1, -1, 2>>}

\* the values assigned to coefficients, boundary types and albedos
CoefficientValues == {Number(2), Text("two")}

BoundaryValues == {Text("vacuum"), Text("absorbing"), Number(1)}

AlbedoValues == {Number(3), Number(0), Number(-1), Text("high")}

Call(type, vals, surface_id, boundary_type, albedo, name) ==
  [type |-> type, vals |-> vals, surface_id |-> surface_id,
   boundary_type |-> boundary_type, albedo |-> albedo, name |-> name]

\* planes whose normal is within 1e-12 of the x axis and of the z axis, and
\* planes that are a thousand times further from it
Tilted ==
  { Call("plane", <<1000000, 1, 0, 0>>, None, "transmission", 1, ""),
    Call("plane", <<0, -2, -2000000, 4000000>>, None, "vacuum", 1, ""),
    Call("plane", <<1000, 1, 0, 0>>, None, "transmission", 1, ""),
    Call("plane", <<0, -2, -2000, 4000>>, None, "vacuum", 1, "") }

\* the constructor calls a behaviour starts from
Catalog ==
  { Call("plane", <<1, 1, 0, 1>>, None, "transmission", 1, ""),
    Call("plane", <<5, 0, 0, 5>>, 2, "reflective", 2, "p"),
    Call("plane", <<0, 0, -2, 2>>, None, "vacuum", 1, ""),
    Call("x-plane", <<1>>, None, "periodic", 1, "left"),
    Call("y-plane", <<-1>>, 1, "transmission", 1, ""),
    Call("z-plane", <<0>>, None, "white", 2, ""),
    Call("sphere", <<0, 0, 0, 2>>, None, "vacuum", 1, "ball"),
    Call("sphere", <<5, 0, 0, 1>>, 3, "transmission", 1, ""),
    Call("cylinder", <<0, 1, 0, 1, 0, 0, 2>>, None, "transmission", 1, ""),
    Call("cylinder", <<1, 0, 0, 2, 0, -1, 0>>, None, "reflective", 1, "pin"),
    Call("x-cylinder", <<1, 2, 3>>, None, "transmission", 1, ""),
    Call("y-cylinder", <<0, 1, 1>>, 2, "vacuum", 1, ""),
    Call("z-cylinder", <<-1, 0, 2>>, None, "reflective", 2, "clad"),
    Call("cone", <<1, 0, 0, 1, 1, 0, 0>>, None, "transmission", 1, ""),
    Call("cone", <<0, 0, 1, 2, 0, 0, -1>>, None, "white", 1, ""),
    Call("x-cone", <<0, 1, 0, 1>>, None, "transmission", 1, ""),
    Call("y-cone", <<1, 0, 0, 2>>, None, "transmission", 1, "c"),
    Call("z-cone", <<0, 0, 1, 1>>, 1, "vacuum", 1, ""),
    Call("quadric", <<1, 2, 0, 1, 0, 0, -2, 0, 1, -3>>, None, "transmission", 1, ""),
    Call("quadric", <<0, 0, 0, 0, 2, 0, 0, 0, -1, 0>>, None, "vacuum", 1, "q"),
    Call("x-torus", <<0, 0, 0, 2, 1, 1>>, None, "transmission", 1, ""),
    Call("y-torus", <<1, 0, -1, 2, 1, 1>>, 2, "reflective", 1, "ring"),
    Call("z-torus", <<0, 1, 0, 1, 2, 1>>, None, "vacuum", 1, "") }

----------------------------------------------------------------------------
(* State.  heap, next_id, used_ids: the instances and Surface's identifier  *)
(* registry.  hs, regions: the half-spaces and regions the client holds.    *)
(* memos: the dictionaries the client passes as memo.  hist: one entry per  *)
(* call made, with its arguments, what it returned and the heap before and  *)
(* after it.                                                                *)

M == [heap |-> heap, next_id |-> next_id, used_ids |-> used_ids]

SetM(m) == heap' = m.heap /\ next_id' = m.next_id /\ used_ids' = m.used_ids

NoHalfspace == Halfspace(None, "")

Id3 == Matrix(<< <<1, 0, 0>>, <<0, 1, 0>>, <<0, 0, 1>> >>, 1)

Zero3 == <<0, 0, 0>>

Entry(op, s, self, other, vector, R, pivot, inplace, mi, ret, out, err, post) ==
  [op |-> op, s |-> s, self |-> self, other |-> other, vector |-> vector,
   R |-> R, pivot |-> pivot, inplace |-> inplace, mi |-> mi, ret |-> ret,
   out |-> out, err |-> err, pre |-> heap, post |-> post, memos |-> memos]

\* one surface of the catalog, its two half-spaces, their intersection and
\* their union, two dictionaries for clone and one each for translate and
\* rotate
Start(n) ==
  /\ heap = n.m.heap
  /\ next_id = n.m.next_id
  /\ used_ids = n.m.used_ids
  /\ hs = <<Halfspace(n.ret, "-"), Halfspace(n.ret, "+")>>
  /\ regions = <<HalfspaceAnd(Halfspace(n.ret, "-"), Halfspace(n.ret, "+")),
                 HalfspaceOr(Halfspace(n.ret, "-"), Halfspace(n.ret, "+"))>>
  /\ memos = [clone |-> <<EmptyMemo, EmptyMemo>>,
              translate |-> EmptyMemo, rotate |-> EmptyMemo]
  /\ hist = <<>>

Init ==
  \E c \in Catalog :
    Start(NewSurface([heap |-> <<>>, next_id |-> 1, used_ids |-> {}],
                     c.type, c.vals, c.surface_id, c.boundary_type, c.albedo, c.name))

\* one surface of the catalog or one of the tilted planes
InitBox ==
  \E c \in Catalog \cup Tilted :
    Start(NewSurface([heap |-> <<>>, next_id |-> 1, used_ids |-> {}],
                     c.type, c.vals, c.surface_id, c.boundary_type, c.albedo, c.name))

\* one sphere
InitPlanePoints ==
  Start(NewSurface([heap |-> <<>>, next_id |-> 1, used_ids |-> {}],
                   "sphere", <<0, 0, 0, 1>>, None, "transmission", 1, ""))

\* three planes, then a sphere
InitPeriodic ==
  Start(NewSurface(
          NewSurface(
            NewSurface(
              NewSurface([heap |-> <<>>, next_id |-> 1, used_ids |-> {}],
                         "x-plane", <<-2>>, None, "periodic", 1, "left").m,
              "x-plane", <<2>>, None, "periodic", 1, "right").m,
            "plane", <<1, 0, 0, 4>>, None, "periodic", 1, "").m,
          "sphere", <<0, 0, 0, 1>>, None, "vacuum", 1, ""))

\* the state after a surface method returned t
Transformed(op, s, vector, R, pivot, inplace, t) ==
  /\ SetM(t.m)
  /\ hist' = Append(hist, Entry(op, s, NoHalfspace, NoHalfspace, vector, R, pivot,
                                inplace, 0, t.ret, NoHalfspace, t.err, t.m.heap))
  /\ UNCHANGED <<hs, regions, memos>>

\* surface.translate(vector, inplace)
DoTranslate(s, vector, inplace) ==
  Transformed("translate", s, vector, Id3, Zero3, inplace,
              Translate(M, s, vector, inplace))

\* the state after surface.rotate returned t, for the arguments on which
\* the values it stores are exact
Rotation(s, R, pivot, inplace, t) ==
  t.exact /\ Transformed("rotate", s, Zero3, R, pivot, inplace, t)

\* surface.rotate(R, pivot, inplace=inplace)
DoRotate(s, R, pivot, inplace) ==
  Rotation(s, R, pivot, inplace, Rotate(M, s, R, pivot, inplace))

\* the state after surface.clone returned c
SurfaceCloned(s, mi, c) ==
  /\ SetM(c.m)
  /\ memos' = IF mi = 0 THEN memos ELSE [memos EXCEPT !.clone[mi] = c.memo]
  /\ hist' = Append(hist, Entry("clone", s, NoHalfspace, NoHalfspace, Zero3,
                                Id3, Zero3, FALSE, mi, c.ret, NoHalfspace,
                                "", c.m.heap))
  /\ UNCHANGED <<hs, regions>>

\* surface.clone(memo): mi = 0 is memo None, else the mi-th dictionary
DoClone(s, mi) ==
  SurfaceCloned(s, mi, IF mi = 0 THEN CloneNoMemo(M, s)
                       ELSE SurfaceClone(M, s, memos.clone[mi]))

\* the state after a method of the half-space self returned t; the memo
\* the client passed, if any, is the dictionary the method left
Returned(op, self, vector, R, pivot, inplace, mi, t, memosAfter) ==
  /\ t.exact
  /\ SetM(t.m)
  /\ memos' = IF mi = 0 THEN memos ELSE memosAfter
  /\ hist' = Append(hist, Entry(op, self.surface, self, NoHalfspace, vector, R, pivot,
                                inplace, mi, t.ret, t.out, t.err, t.m.heap))
  /\ UNCHANGED <<hs, regions>>

\* the state after hs[i].clone returned c
HalfspaceCloned(i, mi, c) ==
  Returned("hsclone", hs[i], Zero3, Id3, Zero3, FALSE, mi, c,
           [memos EXCEPT !.clone[mi] = c.memo])

\* hs[i].clone(memo)
DoHalfspaceClone(i, mi) ==
  HalfspaceCloned(i, mi, HalfspaceClone(M, hs[i],
                                        IF mi = 0 THEN EmptyMemo ELSE memos.clone[mi],
                                        mi = 0))

\* the state after hs[i].translate returned t
HalfspaceTranslated(i, vector, inplace, mi, t) ==
  Returned("hstranslate", hs[i], vector, Id3, Zero3, inplace, mi, t,
           [memos EXCEPT !.translate = t.memo])

\* hs[i].translate(vector, inplace, memo)
DoHalfspaceTranslate(i, vector, inplace, mi) ==
  HalfspaceTranslated(i, vector, inplace, mi,
                      HalfspaceTranslate(M, hs[i], vector, inplace,
                                         IF mi = 0 THEN EmptyMemo ELSE memos.translate))

\* the state after hs[i].rotate returned t
HalfspaceRotated(i, R, pivot, inplace, mi, t) ==
  Returned("hsrotate", hs[i], Zero3, R, pivot, inplace, mi, t,
           [memos EXCEPT !.rotate = t.memo])

\* hs[i].rotate(R, pivot, inplace=inplace, memo=memo)
DoHalfspaceRotate(i, R, pivot, inplace, mi) ==
  HalfspaceRotated(i, R, pivot, inplace, mi,
                   HalfspaceRotate(M, hs[i], R, pivot, "xyz", inplace,
                                   IF mi = 0 THEN EmptyMemo ELSE memos.rotate))

\* ~hs[i]
DoInvert(i) ==
  /\ hs' = Append(hs, HalfspaceInvert(hs[i]))
  /\ hist' = Append(hist, Entry("invert", hs[i].surface, hs[i], NoHalfspace, Zero3,
                                Id3, Zero3, FALSE, 0, None, HalfspaceInvert(hs[i]),
                                "", heap))
  /\ UNCHANGED <<heap, next_id, used_ids, regions, memos>>

\* hs[i] & other
DoAnd(i, other) ==
  /\ regions' = Append(regions, HalfspaceAnd(hs[i], other))
  /\ hist' = Append(hist, Entry("and", hs[i].surface, hs[i], other, Zero3,
                                Id3, Zero3, FALSE, 0, None, HalfspaceAnd(hs[i], other),
                                "", heap))
  /\ UNCHANGED <<heap, next_id, used_ids, hs, memos>>

\* hs[i] | other
DoOr(i, other) ==
  /\ regions' = Append(regions, HalfspaceOr(hs[i], other))
  /\ hist' = Append(hist, Entry("or", hs[i].surface, hs[i], other, Zero3,
                                Id3, Zero3, FALSE, 0, None, HalfspaceOr(hs[i], other),
                                "", heap))
  /\ UNCHANGED <<heap, next_id, used_ids, hs, memos>>

\* point in hs[i]
DoContains(i, point) ==
  /\ hist' = Append(hist, Entry("contains", hs[i].surface, hs[i], NoHalfspace, point,
                                Id3, Zero3, FALSE, 0, None,
                                HalfspaceContains(heap, hs[i], point), "", heap))
  /\ UNCHANGED <<heap, next_id, used_ids, hs, regions, memos>>

\* the state after Quadric(a=k*s.a, ..., k=k*s.k) was constructed as n and
\* s.is_equal(it) was evaluated
Scaled(s, k, n) ==
  /\ SetM(n.m)
  /\ hist' = Append(hist, [op |-> "scale", s |-> s, k |-> k, ret |-> n.ret,
                           out |-> is_equal(heap[s], n.m.heap[n.ret]),
                           pre |-> heap, post |-> n.m.heap])
  /\ UNCHANGED <<hs, regions, memos>>

\* the quadric whose coefficients are k times those of the quadric s
DoScale(s, k) ==
  /\ heap[s].type = "quadric"
  /\ Scaled(s, k, NewSurface(M, "quadric",
                             [i \in 1..10 |-> k * QuadricBaseCoeffs(heap[s]).num[i]],
                             None, heap[s].boundary_type, heap[s].albedo,
                             heap[s].name))

\* the state after a constructor call with the axis vector axis returned n
Constructed(via, type, axis, n) ==
  /\ SetM(n.m)
  /\ hist' = Append(hist, [op |-> "construct", via |-> via, type |-> type,
                           axis |-> axis, ret |-> n.ret, err |-> n.err,
                           pre |-> heap, post |-> n.m.heap])
  /\ UNCHANGED <<hs, regions, memos>>

\* Cylinder(x0, y0, z0, r, dx, dy, dz) or Cone(x0, y0, z0, r2, dx, dy, dz)
DoConstruct(type, origin, r, axis) ==
  Constructed("__init__", type, axis,
              NewSurface(M, type, origin \o <<r>> \o axis, None, "transmission", 1, ""))

\* Cylinder.from_points(p1, p2, r)
DoFromPoints(p1, p2, r) ==
  Constructed("from_points", "cylinder", Sub3(p2, p1), from_points(M, p1, p2, r))

\* the state after Plane.from_points(p1, p2, p3) returned n
PlaneConstructed(p1, p2, p3, n) ==
  /\ SetM(n.m)
  /\ hist' = Append(hist, [op |-> "Plane.from_points", p1 |-> p1, p2 |-> p2, p3 |-> p3,
                           ret |-> n.ret, err |-> n.err, pre |-> heap, post |-> n.m.heap])
  /\ UNCHANGED <<hs, regions, memos>>

\* Plane.from_points(p1, p2, p3)
DoPlaneFromPoints(p1, p2, p3) ==
  PlaneConstructed(p1, p2, p3, PlaneFromPoints(M, p1, p2, p3))

\* the state after heap[s].attr = value left r
Assigned(s, attr, value, r) ==
  /\ heap' = [heap EXCEPT ![s] = r.inst]
  /\ hist' = Append(hist, [op |-> "assign", s |-> s, attr |-> attr,
                           value |-> value, err |-> r.err, ret |-> None,
                           pre |-> heap, post |-> [heap EXCEPT ![s] = r.inst]])
  /\ UNCHANGED <<next_id, used_ids, hs, regions, memos>>

\* surface.attr = value
DoAssign(s, attr, value) ==
  Assigned(s, attr, value, Assignment(heap[s], attr, value))

\* the state after heap[s].periodic_surface = heap[p] returned or raised
Paired(s, p, t) ==
  /\ SetM(t.m)
  /\ hist' = Append(hist, [op |-> "pair", s |-> s, p |-> p, err |-> t.err,
                           ret |-> None, pre |-> heap, post |-> t.m.heap])
  /\ UNCHANGED <<hs, regions, memos>>

\* s.periodic_surface = p, for a plane s
DoPair(s, p) ==
  /\ heap[s].type \in PlaneTypes
  /\ Paired(s, p, set_periodic_surface(M, s, p))

\* hs[i].bounding_box: self.surface.bounding_box(self.side)
DoBoundingBox(i) ==
  /\ heap[hs[i].surface].type \in PlaneTypes =>
       WholeVals(PlaneBaseCoeffs(heap[hs[i].surface]).num)
  /\ hist' = Append(hist, [op |-> "bounding_box", s |-> hs[i].surface, self |-> hs[i],
                           out |-> bounding_box(heap[hs[i].surface], hs[i].side),
                           err |-> "", ret |-> None, pre |-> heap, post |-> heap])
  /\ UNCHANGED <<heap, next_id, used_ids, hs, regions, memos>>

\* heap[s].evaluate(point), for the families whose evaluate is a polynomial
DoEvaluate(s, point) ==
  /\ HasBaseCoeffs(heap[s])
  /\ hist' = Append(hist, [op |-> "evaluate", s |-> s, point |-> point,
                           out |-> evaluate(heap[s], point), err |-> "", ret |-> None,
                           pre |-> heap, post |-> heap])
  /\ UNCHANGED <<heap, next_id, used_ids, hs, regions, memos>>

\* the state after heap[s].to_xml_element() returned w
Serialized(s, w) ==
  /\ SetM(w.m)
  /\ hist' = Append(hist, [op |-> "to_xml_element", s |-> s, quad |-> w.quad,
                           out |-> w.element, err |-> "", ret |-> None,
                           pre |-> heap, post |-> w.m.heap])
  /\ UNCHANGED <<hs, regions, memos>>

\* heap[s].to_xml_element()
DoToXml(s) == Serialized(s, to_xml_element(M, s))

Seq2Set(q) == {q[i] : i \in DOMAIN q}

\* the region algebra of half-spaces
NextRegion ==
  /\ Len(hist) < MaxRegionOps
  /\ \/ \E i \in DOMAIN hs : DoInvert(i)
     \/ \E i \in DOMAIN hs : \E other \in Seq2Set(hs) \cup Seq2Set(regions) : DoAnd(i, other)
     \/ \E i \in DOMAIN hs : \E other \in Seq2Set(hs) \cup Seq2Set(regions) : DoOr(i, other)

\* point classification
NextContains ==
  /\ Len(hist) < MaxQueries
  /\ \E i \in DOMAIN hs : \E point \in Points : DoContains(i, point)

\* translations of surfaces
NextTranslate ==
  /\ Len(hist) < MaxTranslates
  /\ \E s \in DOMAIN heap : \E vector \in Vectors : \E inplace \in BOOLEAN :
       DoTranslate(s, vector, inplace)

\* translations and rotations of surfaces
NextTransform ==
  /\ Len(hist) < MaxTransforms
  /\ \/ \E s \in DOMAIN heap : \E vector \in Vectors : \E inplace \in BOOLEAN :
          DoTranslate(s, vector, inplace)
     \/ \E s \in DOMAIN heap : \E R \in Rotations : \E pivot \in Pivots :
          \E inplace \in BOOLEAN : DoRotate(s, R, pivot, inplace)

\* translations of half-spaces
NextHalfspaceTranslate ==
  /\ Len(hist) < MaxHalfspaceOps
  /\ \E i \in DOMAIN hs : \E vector \in Offsets : \E inplace \in BOOLEAN :
       \E mi \in 0..1 : DoHalfspaceTranslate(i, vector, inplace, mi)

\* translations of half-spaces that pass the same dictionary as memo
NextMemoTranslate ==
  /\ Len(hist) < MaxMemoOps
  /\ \E i \in DOMAIN hs : \E vector \in MemoVectors : \E inplace \in BOOLEAN :
       DoHalfspaceTranslate(i, vector, inplace, 1)

\* rotations of half-spaces
NextHalfspaceRotate ==
  /\ Len(hist) < MaxHalfspaceOps
  /\ \E i \in DOMAIN hs : \E R \in Rotations : \E pivot \in Pivots :
       \E inplace \in BOOLEAN : \E mi \in 0..1 :
         DoHalfspaceRotate(i, R, pivot, inplace, mi)

\* clones of surfaces and half-spaces
NextClone ==
  /\ Len(hist) < MaxClones
  /\ \/ \E s \in DOMAIN heap : \E mi \in 0..Len(memos.clone) : DoClone(s, mi)
     \/ \E i \in DOMAIN hs : \E mi \in 0..Len(memos.clone) : DoHalfspaceClone(i, mi)

\* quadrics with scaled coefficients
NextScale ==
  /\ Len(hist) < MaxScalings
  /\ \E s \in DOMAIN heap : \E k \in Scales : DoScale(s, k)

\* rotations by 90 degrees about a coordinate axis, pivot at the origin,
\* each of the surface the rotation before it returned
NextQuarterTurn ==
  /\ Len(hist) < MaxQuarterTurns
  /\ \E s \in DOMAIN heap : \E R \in QuarterTurns : \E inplace \in BOOLEAN :
       /\ s = IF hist = <<>> THEN 1 ELSE hist[Len(hist)].ret
       /\ DoRotate(s, R, Zero3, inplace)

\* one rotate of the surface constructed, with a matrix that is not
\* orthonormal supplied directly
NextMisrotate ==
  /\ hist = <<>>
  /\ \E R \in NonOrthonormal : \E pivot \in Pivots : \E inplace \in BOOLEAN :
       DoRotate(1, R, pivot, inplace)

\* one more general cylinder or cone is constructed
NextConstruct ==
  /\ hist = <<>>
  /\ \/ \E type \in {"cylinder", "cone"} : \E origin \in Pivots : \E axis \in Axes :
          DoConstruct(type, origin, 1, axis)
     \/ \E p1 \in Pivots : \E p2 \in Pivots \cup Axes : DoFromPoints(p1, p2, 2)

\* one plane is constructed through three points
NextPlanePoints ==
  /\ hist = <<>>
  /\ \E p1 \in Corners : \E p2 \in Corners : \E p3 \in Corners :
       DoPlaneFromPoints(p1, p2, p3)

\* assignments to, and transformations of, the surface created last
NextAssign ==
  /\ Len(hist) < MaxAssigns
  /\ \/ \E attr \in DOMAIN heap[Len(heap)].cls : \E value \in CoefficientValues :
          DoAssign(Len(heap), attr, value)
     \/ \E value \in BoundaryValues : DoAssign(Len(heap), "boundary_type", value)
     \/ \E value \in AlbedoValues : DoAssign(Len(heap), "albedo", value)
     \/ \E inplace \in BOOLEAN : DoTranslate(Len(heap), <<1, -1, 2>>, inplace)
     \/ \E R \in QuarterTurns : \E inplace \in BOOLEAN :
          WholeAxis(heap[Len(heap)]) /\ DoRotate(Len(heap), R, Zero3, inplace)

\* translations and rotations of the surface created last
NextMove ==
  /\ Len(hist) < MaxMoves
  /\ \/ \E vector \in Offsets : \E inplace \in BOOLEAN :
          DoTranslate(Len(heap), vector, inplace)
     \/ \E R \in Rotations : \E pivot \in Pivots : \E inplace \in BOOLEAN :
          DoRotate(Len(heap), R, pivot, inplace)

\* in-place translations of the surface, and the bounding boxes of its
\* half-spaces
NextBox ==
  /\ Len(hist) < MaxBoxOps
  /\ \/ \E vector \in Offsets : DoTranslate(1, vector, TRUE)
     \/ \E i \in DOMAIN hs : DoBoundingBox(i)

\* in-place translations of the surface, then one evaluation of it
NextEvaluate ==
  /\ \A k \in DOMAIN hist : hist[k].op = "translate"
  /\ \/ /\ Len(hist) < MaxEvalMoves
        /\ \E vector \in Offsets : DoTranslate(1, vector, TRUE)
     \/ /\ Len(hist) <= MaxEvalMoves
        /\ \E point \in Probes : DoEvaluate(1, point)

\* in-place translations of the surface, and its serialization
NextXml ==
  /\ Len(hist) < MaxXmlOps
  /\ \/ \E vector \in Offsets : DoTranslate(1, vector, TRUE)
     \/ DoToXml(1)

NextPeriodic ==
  /\ Len(hist) < MaxPairings
  /\ \E s \in DOMAIN heap : \E p \in DOMAIN heap : DoPair(s, p)

Next ==
  \/ NextRegion
  \/ NextContains
  \/ NextTranslate
  \/ NextTransform
  \/ NextHalfspaceTranslate
  \/ NextHalfspaceRotate
  \/ NextMemoTranslate
  \/ NextClone
  \/ NextScale
  \/ NextQuarterTurn
  \/ NextMisrotate
  \/ NextConstruct
  \/ NextAssign
  \/ NextPeriodic
  \/ NextMove
  \/ NextBox
  \/ NextPlanePoints
  \/ NextEvaluate
  \/ NextXml

Spec == Init /\ [][Next]_vars

SpecRegion == Init /\ [][NextRegion]_vars

SpecContains == Init /\ [][NextContains]_vars

SpecTranslate == Init /\ [][NextTranslate]_vars

SpecTransform == Init /\ [][NextTransform]_vars

SpecHalfspaceTranslate == Init /\ [][NextHalfspaceTranslate]_vars

SpecMemoTranslate == Init /\ [][NextMemoTranslate]_vars

SpecHalfspaceRotate == Init /\ [][NextHalfspaceRotate]_vars

SpecClone == Init /\ [][NextClone]_vars

SpecScale == Init /\ [][NextScale]_vars

SpecQuarterTurns == Init /\ [][NextQuarterTurn]_vars

SpecMisrotate == Init /\ [][NextMisrotate]_vars

SpecConstruct == Init /\ [][NextConstruct]_vars

SpecAssign == Init /\ [][NextAssign]_vars

SpecMove == Init /\ [][NextMove]_vars

SpecBox == InitBox /\ [][NextBox]_vars

SpecEvaluate == Init /\ [][NextEvaluate]_vars

SpecPlanePoints == InitPlanePoints /\ [][NextPlanePoints]_vars

SpecXml == Init /\ [][NextXml]_vars

SpecPeriodic == InitPeriodic /\ [][NextPeriodic]_vars

----------------------------------------------------------------------------
(* Properties                                                               *)

Calls(op) == {k \in DOMAIN hist : hist[k].op = op}

\* the latest call, when it is a call of op
Latest(op) == {k \in Calls(op) : k = Len(hist)}

\* the half-spaces of either side on the instance s
OnSurface(s) == {Halfspace(s, "+"), Halfspace(s, "-")}

Flattened(node, cls, self, other) ==
  /\ isinstance(node, cls)
  /\ Len(node.nodes) = Len(other.nodes) + 1
  /\ node.nodes[1] = self
  /\ \A i \in DOMAIN other.nodes : node.nodes[i + 1] = other.nodes[i]
  /\ \A i \in DOMAIN node.nodes : node.nodes[i] # other

\* C3: A & I for an Intersection I of n members is one Intersection of n + 1
\* members, A first and then the members of I in order, never a node that
\* has I as a member; likewise A | U for a Union U.
C3_Flattening ==
  /\ \A k \in Calls("and") :
       isinstance(hist[k].other, "Intersection") =>
         Flattened(hist[k].out, "Intersection", hist[k].self, hist[k].other)
  /\ \A k \in Calls("or") :
       isinstance(hist[k].other, "Union") =>
         Flattened(hist[k].out, "Union", hist[k].self, hist[k].other)

\* a half-space was combined with an existing Intersection, and one with
\* an existing Union
C3_Witness ==
  /\ \E k \in Calls("and") : isinstance(hist[k].other, "Intersection")
  /\ \E k \in Calls("or") : isinstance(hist[k].other, "Union")

\* the latest call is the second leg of a round trip: a translate by -v of
\* the instance the translate by v before it returned
RoundTrips ==
  {k \in Latest("translate") :
     /\ k > 1
     /\ hist[k - 1].op = "translate"
     /\ hist[k].s = hist[k - 1].ret
     /\ hist[k].vector = Neg3(hist[k - 1].vector)}

\* is_equal of the surface a round trip started from, as it was before the
\* first leg, and the surface the second leg returned
RoundTripEqual(k) ==
  is_equal(hist[k - 1].pre[hist[k - 1].s], hist[k].post[hist[k].ret])

\* C4 as claimed: for a surface of every family, the tori included,
\* translating by v and then the result by -v gives a surface for which
\* is_equal against the original returns true.
C4_RoundTripEveryFamily ==
  \A k \in RoundTrips : RoundTripEqual(k) = [val |-> TRUE, err |-> ""]

\* C4 amended: for a surface of every family but the tori, translating by v
\* and then the result by -v (in place or not) gives a surface for which
\* is_equal against the original returns true; for a torus is_equal raises
\* NotImplementedError, and the round trip gives back its coefficients.
C4_RoundTrip ==
  \A k \in RoundTrips :
    IF hist[k].pre[hist[k].s].type \in TorusTypes
    THEN /\ RoundTripEqual(k).err = "NotImplementedError"
         /\ hist[k].post[hist[k].ret].coeffs = hist[k - 1].pre[hist[k - 1].s].coeffs
    ELSE RoundTripEqual(k) = [val |-> TRUE, err |-> ""]

\* a general quadric went through a round trip with a non-zero vector
C4_Witness ==
  \E k \in RoundTrips :
    /\ ~AllCloseZero(hist[k].vector)
    /\ hist[k].pre[hist[k].s].type = "quadric"
    /\ RoundTripEqual(k).val

\* C5: for every family, the tori included, translate with a vector whose
\* components are all within 1e-12 of zero returns the instance it was
\* called on, in place or not, creates no instance and changes no
\* coefficient.
C5_ZeroVector ==
  \A k \in Latest("translate") :
    AllCloseZero(hist[k].vector) =>
      /\ hist[k].ret = hist[k].s
      /\ hist[k].post = hist[k].pre

\* the latest call is a method of a half-space that found no entry for its
\* key in the memo, so that it called the method of the surface
Performed(op) ==
  {k \in Latest(op) :
     \/ hist[k].mi = 0
     \/ /\ op = "hstranslate"
        /\ <<hist[k].s, hist[k].vector>> \notin DOMAIN hist[k].memos.translate
     \/ /\ op = "hsrotate"
        /\ <<hist[k].s, hist[k].R, hist[k].pivot, "xyz", hist[k].inplace>>
             \notin DOMAIN hist[k].memos.rotate}

\* C6: when H1 on the surface instance S is translated with inplace=True by
\* a non-zero vector v (the surface is translated: the memo, if one is
\* passed, has no entry for S and v), every half-space H2 on S sees the
\* translated surface: p + v is in H2 after the call iff p was in H2 before.
C6_SharedTranslate ==
  \A k \in Performed("hstranslate") :
    (hist[k].inplace /\ ~AllCloseZero(hist[k].vector)) =>
      \A H2 \in OnSurface(hist[k].s) : \A p \in Probes :
        HalfspaceContains(hist[k].post, H2, Add3(p, hist[k].vector))
          <=> HalfspaceContains(hist[k].pre, H2, p)

\* a half-space on a sphere was translated in place by a non-zero vector,
\* and a point left the other half-space on the sphere
C6_Witness ==
  \E k \in Performed("hstranslate") :
    /\ hist[k].inplace
    /\ ~AllCloseZero(hist[k].vector)
    /\ hist[k].pre[hist[k].s].type = "sphere"
    /\ \E H2 \in OnSurface(hist[k].s) \ {hist[k].self} : \E p \in Points :
         HalfspaceContains(hist[k].pre, H2, p) /\ ~HalfspaceContains(hist[k].post, H2, p)

\* numerators of q + R (p - q), over R.den
Image(R, q, p) ==
  Add3(<<R.den * q[1], R.den * q[2], R.den * q[3]>>, MatVec(R, Sub3(p, q)))

\* C7: when H1 on the surface instance S is rotated with inplace=True by R
\* about the pivot q, every half-space H2 on S sees the rotated surface:
\* the image q + R (p - q) of a point p is in H2 after the call iff p was in
\* H2 before.  Stated for the points whose image has integer coordinates.
C7_SharedRotate ==
  \A k \in Performed("hsrotate") :
    (hist[k].inplace /\ hist[k].err = "") =>
      \A H2 \in OnSurface(hist[k].s) : \A p \in Points :
        Exact3(Image(hist[k].R, hist[k].pivot, p), hist[k].R.den) =>
          (HalfspaceContains(hist[k].post, H2,
                             Quot3(Image(hist[k].R, hist[k].pivot, p), hist[k].R.den))
             <=> HalfspaceContains(hist[k].pre, H2, p))

\* the latest call, when it is surface.translate with a non-zero vector or
\* surface.rotate, called with inplace=False
NotInPlace ==
  {k \in Latest("translate") \cup Latest("rotate") :
     /\ ~hist[k].inplace
     /\ hist[k].op = "translate" => ~AllCloseZero(hist[k].vector)}

\* the instance the call k was made on is as it was before the call
Untouched(k) == hist[k].post[hist[k].s] = hist[k].pre[hist[k].s]

\* the call k returned an instance other than the one it was called on,
\* with another identifier
ReturnedNew(k) ==
  /\ hist[k].err = ""
  /\ hist[k].ret # hist[k].s
  /\ hist[k].post[hist[k].ret].id # hist[k].pre[hist[k].s].id

\* C8 as stated: translate with a non-zero vector and rotate, called with
\* inplace=False, leave the coefficients, boundary type, albedo, name and
\* identifier of the surface unchanged and return a different instance with
\* a different identifier.
C8_NotInPlaceAlwaysReturns ==
  \A k \in NotInPlace : Untouched(k) /\ ReturnedNew(k)

\* C8: translate with a non-zero vector and rotate, called with
\* inplace=False, leave the coefficients, boundary type, albedo, name and
\* identifier of the surface unchanged; they return a different instance
\* with a different identifier, except that rotate raises
\* NotImplementedError on a torus when the rotation matrix has an entry
\* other than -1, 0 and 1.
C8_NotInPlace ==
  \A k \in NotInPlace :
    /\ Untouched(k)
    /\ IF /\ hist[k].op = "rotate"
          /\ hist[k].pre[hist[k].s].type \in TorusTypes
          /\ ~TrivialMatrix(hist[k].R)
       THEN hist[k].err = "NotImplementedError" /\ hist[k].post = hist[k].pre
       ELSE ReturnedNew(k)

\* a cylinder was rotated with inplace=False and the instance returned has
\* other coefficients than the cylinder
C8_Witness ==
  \E k \in NotInPlace :
    /\ hist[k].op = "rotate"
    /\ hist[k].pre[hist[k].s].type = "cylinder"
    /\ ReturnedNew(k)
    /\ hist[k].post[hist[k].ret].coeffs # hist[k].pre[hist[k].s].coeffs

\* C9: two half-spaces on one surface instance S cloned with the same memo
\* reference one and the same new instance, which is not S and has another
\* identifier; S cloned twice with the same memo gives the same instance;
\* S cloned with separate memos, or without a memo, gives two distinct
\* instances.
C9_MemoSharing ==
  /\ \A k \in Latest("hsclone") : \A j \in Calls("hsclone") :
       (/\ hist[k].mi # 0
        /\ hist[j].mi = hist[k].mi
        /\ hist[j].s = hist[k].s) =>
         /\ hist[k].err = ""
         /\ hist[k].out.surface = hist[j].out.surface
         /\ hist[k].out.surface # hist[k].s
         /\ hist[k].post[hist[k].out.surface].id # hist[k].pre[hist[k].s].id
  /\ \A k \in Latest("clone") : \A j \in Calls("clone") :
       (j < k /\ hist[j].s = hist[k].s) =>
         (hist[k].ret = hist[j].ret <=> (hist[k].mi # 0 /\ hist[k].mi = hist[j].mi))

\* both half-spaces on S were cloned with one memo
C9_Witness ==
  \E k \in Latest("hsclone") : \E j \in Calls("hsclone") :
    /\ hist[k].mi # 0 /\ hist[j].mi = hist[k].mi /\ hist[j].s = hist[k].s
    /\ hist[j].self # hist[k].self
    /\ hist[k].out.surface = hist[j].out.surface
    /\ hist[k].out.surface # hist[k].s

\* C10: Halfspace.clone called without a memo succeeds and returns a
\* half-space of the same side on a new copy of the surface, with another
\* identifier and equal coefficients.
C10_CloneWithoutMemo ==
  \A k \in Latest("hsclone") :
    hist[k].mi = 0 =>
      /\ hist[k].err = ""
      /\ hist[k].out.side = hist[k].self.side
      /\ hist[k].out.surface # hist[k].s
      /\ hist[k].out.surface \in DOMAIN hist[k].post
      /\ hist[k].post[hist[k].out.surface].id # hist[k].pre[hist[k].s].id
      /\ hist[k].post[hist[k].out.surface].coeffs = hist[k].pre[hist[k].s].coeffs

\* C11: the quadric whose ten coefficients are k times those of a quadric Q
\* with a non-zero coefficient, for a non-zero constant k of either sign,
\* is is_equal to Q.
C11_ScaledEqual ==
  \A n \in Latest("scale") : hist[n].out = [val |-> TRUE, err |-> ""]

\* the latest call is the fourth of four successive rotations by the same
\* quarter turn about the origin, each of the surface the one before returned
FullTurns ==
  {k \in Latest("rotate") :
     /\ k >= 4
     /\ hist[k].R \in QuarterTurns
     /\ \A j \in (k - 3)..k :
          /\ hist[j].op = "rotate" /\ hist[j].err = ""
          /\ hist[j].R = hist[k].R /\ hist[j].pivot = Zero3
          /\ j > k - 3 => hist[j].s = hist[j - 1].ret}

\* C12: for a surface of a family of degree at most 2 and each coordinate
\* axis, four successive rotations by 90 degrees about that axis, pivot at
\* the origin, give a surface whose normalized canonical coefficients equal
\* those of the original.
C12_FullTurn ==
  \A k \in FullTurns :
    hist[k - 3].pre[hist[k - 3].s].type \notin TorusTypes =>
      AllClose(normalize(_get_base_coeffs(hist[k - 3].pre[hist[k - 3].s])),
               normalize(_get_base_coeffs(hist[k].post[hist[k].ret])))

\* an x-cylinder went through four quarter turns about z, not in place, and
\* came back as a general cylinder
C12_Witness ==
  \E k \in FullTurns :
    /\ hist[k - 3].pre[hist[k - 3].s].type = "x-cylinder"
    /\ hist[k].post[hist[k].ret].type = "cylinder"
    /\ hist[k].R = get_rotation_matrix(<<0, 0, 1>>)
    /\ ~hist[k].inplace
    /\ hist[k - 2].post[hist[k - 2].ret].coeffs # hist[k].post[hist[k].ret].coeffs

\* C13: rotate on a torus with a matrix that has an entry other than -1, 0
\* and 1 raises NotImplementedError before any change: also with
\* inplace=True and a non-zero pivot the center and radii of the torus, and
\* every other instance, are as before the call.
C13_TorusGenericRotation ==
  \A k \in Latest("rotate") :
    (hist[k].pre[hist[k].s].type \in TorusTypes /\ ~TrivialMatrix(hist[k].R)) =>
      /\ hist[k].err = "NotImplementedError"
      /\ hist[k].ret = None
      /\ hist[k].post = hist[k].pre

\* a torus was rotated in place about a pivot other than the origin by a
\* matrix with the entries 3/5 and 4/5
C13_Witness ==
  \E k \in Latest("rotate") :
    /\ hist[k].pre[hist[k].s].type \in TorusTypes
    /\ ~TrivialMatrix(hist[k].R)
    /\ hist[k].inplace
    /\ hist[k].pivot # Zero3
    /\ hist[k].err = "NotImplementedError"

\* the rows of the matrix are orthogonal and of length 1
Orthonormal(R) ==
  \A i, j \in 1..3 : Dot3(R.m[i], R.m[j]) = IF i = j THEN R.den * R.den ELSE 0

\* C14: for every family, rotate with a directly supplied 3x3 matrix that is
\* not orthonormal raises the unsupported-transform error
\* (NotImplementedError), returns no surface and changes no surface.
C14_NonOrthonormalRejected ==
  \A k \in Latest("rotate") :
    ~Orthonormal(hist[k].R) =>
      /\ hist[k].err = "NotImplementedError"
      /\ hist[k].ret = None
      /\ hist[k].post = hist[k].pre

\* C15: constructing a general cylinder or a general cone with an axis
\* vector of length zero, directly or with Cylinder.from_points on two
\* identical points, fails with an error: no surface is returned and none
\* is added.
C15_ZeroAxisRejected ==
  \A k \in Latest("construct") :
    hist[k].axis = Zero3 =>
      /\ hist[k].err # ""
      /\ hist[k].ret = None
      /\ hist[k].post = hist[k].pre

\* C16: an assignment to a coefficient whose descriptor holds a constant
\* of the family raises the read-only error (AttributeError) and leaves the
\* coefficients, and everything else, as they were.
C16_ReadOnlyCoefficient ==
  \A k \in Latest("assign") :
    (/\ hist[k].attr \in DOMAIN hist[k].pre[hist[k].s].cls
     /\ hist[k].pre[hist[k].s].cls[hist[k].attr].const) =>
      /\ hist[k].err = "AttributeError"
      /\ hist[k].post[hist[k].s].coeffs = hist[k].pre[hist[k].s].coeffs
      /\ hist[k].post = hist[k].pre

\* dx of an x-cylinder was assigned a number
C16_Witness ==
  \E k \in Latest("assign") :
    /\ hist[k].pre[hist[k].s].type = "x-cylinder"
    /\ hist[k].attr = "dx"
    /\ hist[k].value = Number(2)
    /\ hist[k].err = "AttributeError"

\* the value of an assignment is one the attribute does not admit
Inadmissible(inst, attr, value) ==
  CASE attr = "boundary_type" ->
         ~(value.type = "str" /\ value.str \in {"transmission", "vacuum", "reflective",
                                                "periodic", "white"})
    [] attr = "albedo" -> ~(value.type = "Real" /\ value.num > 0)
    [] OTHER -> value.type # "Real"

\* C17: every surface has one of the five boundary types and an albedo > 0,
\* whatever assignments, translations and rotations were made; and the
\* assignment of a boundary type outside the five, of an albedo that is not
\* a number > 0, or of a coefficient that is not a number, raises an
\* exception and leaves the surface as it was.
C17_BoundaryAndAlbedo ==
  /\ \A i \in DOMAIN heap :
       /\ heap[i].boundary_type \in {"transmission", "vacuum", "reflective",
                                     "periodic", "white"}
       /\ heap[i].albedo > 0
  /\ \A k \in Latest("assign") :
       Inadmissible(hist[k].pre[hist[k].s], hist[k].attr, hist[k].value) =>
         /\ hist[k].err # ""
         /\ hist[k].post = hist[k].pre

\* an albedo of 3 was assigned, and then the assignment of albedo 0 failed
C17_Witness ==
  /\ Len(hist) = 2
  /\ hist[1].op = "assign" /\ hist[1].attr = "albedo" /\ hist[1].err = ""
  /\ hist[2].op = "assign" /\ hist[2].attr = "albedo"
  /\ hist[2].value = Number(0) /\ hist[2].err = "ValueError"
  /\ heap[hist[2].s].albedo = 3

\* C18: whatever periodic_surface assignments were made among the planes,
\* A.periodic_surface is B exactly when B.periodic_surface is A.
C18_SymmetricPairing ==
  \A A, B \in {i \in DOMAIN heap : heap[i].type \in PlaneTypes} :
    heap[A].periodic_surface = B <=> heap[B].periodic_surface = A

\* C19: whatever translations and rotations were made, bounding_box('+') of
\* every sphere, cylinder, cone, quadric and torus has the lower corner
\* (-inf, -inf, -inf) and the upper corner (inf, inf, inf).
C19_PositiveSideUnbounded ==
  \A i \in DOMAIN heap :
    heap[i].type \notin PlaneTypes =>
      /\ bounding_box(heap[i], "+").lower_left = <<NegInf, NegInf, NegInf>>
      /\ bounding_box(heap[i], "+").upper_right = <<PosInf, PosInf, PosInf>>

\* a sphere was translated and its translate then rotated; the box of its
\* negative side is bounded
C19_Witness ==
  /\ Len(hist) = 2
  /\ hist[1].op = "translate" /\ hist[1].vector # Zero3
  /\ hist[2].op = "rotate" /\ hist[2].s = hist[1].ret /\ hist[2].err = ""
  /\ heap[hist[2].ret].type = "sphere"
  /\ \A i \in 1..3 : bounding_box(heap[hist[2].ret], "-").lower_left[i].inf = 0

\* the dimensions in which a box is bounded on both sides
Bounded(box) == {i \in 1..3 : box.lower_left[i].inf = 0 /\ box.upper_right[i].inf = 0}

Expected(x, y, z, e, free) ==
  [lower_left |-> [i \in 1..3 |-> IF i \in free THEN [inf |-> -1, num |-> 0]
                                   ELSE [inf |-> 0, num |-> <<x, y, z>>[i] - e[i]]],
   upper_right |-> [i \in 1..3 |-> IF i \in free THEN [inf |-> 1, num |-> 0]
                                    ELSE [inf |-> 0, num |-> <<x, y, z>>[i] + e[i]]]]

\* the box C21 states for the instance s
ExpectedNegative(s) ==
  CASE s.type = "sphere" ->
         Expected(s.coeffs.x0, s.coeffs.y0, s.coeffs.z0,
                  <<s.coeffs.r, s.coeffs.r, s.coeffs.r>>, {})
    [] s.type = "x-cylinder" ->
         Expected(0, s.coeffs.y0, s.coeffs.z0, <<0, s.coeffs.r, s.coeffs.r>>, {1})
    [] s.type = "y-cylinder" ->
         Expected(s.coeffs.x0, 0, s.coeffs.z0, <<s.coeffs.r, 0, s.coeffs.r>>, {2})
    [] s.type = "z-cylinder" ->
         Expected(s.coeffs.x0, s.coeffs.y0, 0, <<s.coeffs.r, s.coeffs.r, 0>>, {3})
    [] s.type = "x-torus" ->
         Expected(s.coeffs.x0, s.coeffs.y0, s.coeffs.z0,
                  <<s.coeffs.b, s.coeffs.a + s.coeffs.c, s.coeffs.a + s.coeffs.c>>, {})
    [] s.type = "y-torus" ->
         Expected(s.coeffs.x0, s.coeffs.y0, s.coeffs.z0,
                  <<s.coeffs.a + s.coeffs.c, s.coeffs.b, s.coeffs.a + s.coeffs.c>>, {})
    [] s.type = "z-torus" ->
         Expected(s.coeffs.x0, s.coeffs.y0, s.coeffs.z0,
                  <<s.coeffs.a + s.coeffs.c, s.coeffs.a + s.coeffs.c, s.coeffs.b>>, {})

\* C21: bounding_box('-') of a sphere reaches from centre - r to centre + r
\* in all three dimensions; of an axis-aligned cylinder, from centre - r to
\* centre + r in the two transverse dimensions and from -inf to inf along
\* the axis; of an axis-aligned torus, a + c to either side of the centre
\* in the two non-axial dimensions and b in the axial one; with the centre
\* the surface has after the translations made.
C21_NegativeBox ==
  \A i \in DOMAIN heap :
    heap[i].type \in {"sphere", "x-cylinder", "y-cylinder", "z-cylinder",
                      "x-torus", "y-torus", "z-torus"} =>
      bounding_box(heap[i], "-") = ExpectedNegative(heap[i])

\* a torus was translated in place twice, and is where the translations
\* put it
C21_Witness ==
  /\ Len(hist) = 2
  /\ \A k \in 1..2 : /\ hist[k].op = "translate" /\ hist[k].inplace
                      /\ hist[k].s = 1 /\ hist[k].vector # Zero3
  /\ heap[1].type = "y-torus"
  /\ _origin(heap[1]) = Add3(Add3(<<1, 0, -1>>, hist[1].vector), hist[2].vector)
  /\ _origin(heap[1]) # <<1, 0, -1>>

\* the point p is within the box
Inside(p, box) ==
  \A i \in 1..3 :
    /\ box.lower_left[i].inf = 0 => box.lower_left[i].num <= p[i]
    /\ box.upper_right[i].inf = 0 => p[i] <= box.upper_right[i].num

\* the indices of the coefficients a, b, c that are not 0
NonZero(co) == {i \in 1..3 : co[i] # 0}

\* C22: when exactly one of the coefficients a, b, c of a plane is not 0,
\* the box of either side is bounded in that dimension only, at d divided
\* by the coefficient: from above for the side of the smaller coordinates,
\* from below for the other, and every point of the half-space is within
\* the box; the box of every other plane is infinite on both sides.
C22_PlaneBox ==
  \A k \in Latest("bounding_box") :
    hist[k].pre[hist[k].s].type \in PlaneTypes =>
      IF Cardinality(NonZero(PlaneBaseCoeffs(hist[k].pre[hist[k].s]).num)) = 1
      THEN \A n \in NonZero(PlaneBaseCoeffs(hist[k].pre[hist[k].s]).num) :
             /\ \A i \in 1..3 \ {n} : /\ hist[k].out.lower_left[i] = NegInf
                                       /\ hist[k].out.upper_right[i] = PosInf
             /\ IF (hist[k].self.side = "-")
                      = (PlaneBaseCoeffs(hist[k].pre[hist[k].s]).num[n] > 0)
                THEN /\ hist[k].out.lower_left[n] = NegInf
                     /\ hist[k].out.upper_right[n].inf = 0
                     /\ hist[k].out.upper_right[n].num
                          * PlaneBaseCoeffs(hist[k].pre[hist[k].s]).num[n]
                          = PlaneBaseCoeffs(hist[k].pre[hist[k].s]).num[4]
                ELSE /\ hist[k].out.upper_right[n] = PosInf
                     /\ hist[k].out.lower_left[n].inf = 0
                     /\ hist[k].out.lower_left[n].num
                          * PlaneBaseCoeffs(hist[k].pre[hist[k].s]).num[n]
                          = PlaneBaseCoeffs(hist[k].pre[hist[k].s]).num[4]
             /\ \A p \in Points :
                  HalfspaceContains(hist[k].pre, hist[k].self, p) => Inside(p, hist[k].out)
      ELSE hist[k].out = Infinite

\* the index of the axis of an axis-aligned cylinder
AxisOf(type) ==
  CASE type = "x-cylinder" -> 1 [] type = "y-cylinder" -> 2 [] type = "z-cylinder" -> 3

\* the instance a is the axis-aligned cylinder b moved by v: the centre
\* coordinates other than the one along the axis are those of b plus the
\* components of v, the one along the axis, the radius and the axis are
\* those of b
MovedCylinder(a, b, v) ==
  /\ a.type = b.type
  /\ \A i \in 1..3 :
       getattr(a, <<"x0", "y0", "z0">>[i]) =
         IF i = AxisOf(b.type) THEN getattr(b, <<"x0", "y0", "z0">>[i])
         ELSE getattr(b, <<"x0", "y0", "z0">>[i]) + v[i]
  /\ getattr(a, "r") = getattr(b, "r")
  /\ \A key \in {"dx", "dy", "dz"} : getattr(a, key) = getattr(b, key)
  /\ evaluate(a, _origin(a)) = [num |-> -(getattr(b, "r") * getattr(b, "r")), den |-> 1]

\* C23: translate on an XCylinder, YCylinder or ZCylinder raises nothing
\* and returns the cylinder moved by the components of the vector across
\* its axis: the component along the axis is ignored, the radius and the
\* axis are kept, and evaluate at the new centre is -r * r.
C23_AxisCylinderTranslate ==
  \A k \in Latest("translate") :
    hist[k].pre[hist[k].s].type \in {"x-cylinder", "y-cylinder", "z-cylinder"} =>
      /\ hist[k].err = ""
      /\ hist[k].ret # None
      /\ MovedCylinder(hist[k].post[hist[k].ret], hist[k].pre[hist[k].s], hist[k].vector)

\* XCylinder(y0=1, z0=2, r=3) was translated in place by a vector with a
\* component along x
C23_Witness ==
  \E k \in Latest("translate") :
    /\ hist[k].pre[hist[k].s].type = "x-cylinder"
    /\ hist[k].pre[hist[k].s].coeffs = [y0 |-> 1, z0 |-> 2, r |-> 3]
    /\ hist[k].inplace
    /\ hist[k].vector = <<1, -1, 2>>
    /\ hist[k].post[hist[k].ret].coeffs = [y0 |-> 0, z0 |-> 4, r |-> 3]
    /\ evaluate(heap[hist[k].ret], <<0, 0, 4>>).num = -9

\* C24 as stated: the Quadric written in the place of a general cylinder
\* or cone has its boundary type, albedo and name, and an identifier other
\* than that of the cylinder or cone.
C24_SubstituteOtherId ==
  \A k \in Latest("to_xml_element") :
    hist[k].pre[hist[k].s].type \in {"cylinder", "cone"} =>
      /\ hist[k].quad.boundary_type = hist[k].pre[hist[k].s].boundary_type
      /\ hist[k].quad.albedo = hist[k].pre[hist[k].s].albedo
      /\ hist[k].quad.name = hist[k].pre[hist[k].s].name
      /\ hist[k].quad.id # hist[k].pre[hist[k].s].id

\* C24, amended: the Quadric written in the place of a general cylinder or
\* cone is another instance with the boundary type, albedo, name and the
\* identifier of the cylinder or cone; the element written has type
\* quadric and that identifier, and no surface is changed or added.
C24_SubstituteSameId ==
  \A k \in Latest("to_xml_element") :
    hist[k].pre[hist[k].s].type \in {"cylinder", "cone"} =>
      /\ hist[k].quad.type = "quadric"
      /\ hist[k].quad.boundary_type = hist[k].pre[hist[k].s].boundary_type
      /\ hist[k].quad.albedo = hist[k].pre[hist[k].s].albedo
      /\ hist[k].quad.name = hist[k].pre[hist[k].s].name
      /\ hist[k].quad.id = hist[k].pre[hist[k].s].id
      /\ hist[k].out.type = "quadric"
      /\ hist[k].out.id = hist[k].pre[hist[k].s].id
      /\ hist[k].post = hist[k].pre

\* the cylinder named pin was translated and then written
C24_Witness ==
  /\ Len(hist) = 2
  /\ hist[1].op = "translate" /\ hist[1].vector # Zero3
  /\ hist[2].op = "to_xml_element"
  /\ heap[1].type = "cylinder" /\ heap[1].name = "pin"
  /\ hist[2].out.name = "pin" /\ hist[2].out.boundary = "reflective"
  /\ hist[2].out.id = heap[1].id

\* the calls of Halfspace.translate with inplace=True and a memo that had
\* no entry for the key of the call
FirstInPlace ==
  {j \in Calls("hstranslate") :
     /\ hist[j].inplace /\ hist[j].mi = 1
     /\ <<hist[j].s, hist[j].vector>> \notin DOMAIN hist[j].memos.translate}

\* the surface s of heap post is the surface s of heap pre moved by v, as
\* far as the signs at the probes tell
MovedBy(pre, post, s, v) ==
  \A p \in Probes : EvaluateSign(post[s], Add3(p, v)) = EvaluateSign(pre[s], p)

AxisRestricted ==
  {"x-plane", "y-plane", "z-plane", "x-cylinder", "y-cylinder", "z-cylinder",
   "x-cone", "y-cone", "z-cone"}

\* C26: rotate of an axis plane, axis cylinder or axis cone returns a Plane,
\* Cylinder or Cone with the boundary type, albedo and name of the surface
\* it was called on, and with its identifier iff inplace=True.
C26_Widened ==
  \A k \in Calls("rotate") :
    hist[k].pre[hist[k].s].type \in AxisRestricted =>
      /\ hist[k].err = ""
      /\ hist[k].post[hist[k].ret].type \in {"plane", "cylinder", "cone"}
      /\ hist[k].post[hist[k].ret].type = _virtual_base(hist[k].pre[hist[k].s].type)
      /\ hist[k].post[hist[k].ret].boundary_type = hist[k].pre[hist[k].s].boundary_type
      /\ hist[k].post[hist[k].ret].albedo = hist[k].pre[hist[k].s].albedo
      /\ hist[k].post[hist[k].ret].name = hist[k].pre[hist[k].s].name
      /\ ((hist[k].post[hist[k].ret].id = hist[k].pre[hist[k].s].id) <=> hist[k].inplace)

\* an axis plane with a name and a boundary type other than the default
\* was rotated in place about a pivot other than the origin
C26_Witness ==
  \E k \in Calls("rotate") :
    /\ hist[k].pre[hist[k].s].type \in {"x-plane", "y-plane", "z-plane"}
    /\ hist[k].pre[hist[k].s].boundary_type # "transmission"
    /\ hist[k].pre[hist[k].s].name # ""
    /\ hist[k].inplace /\ hist[k].pivot # Zero3
    /\ hist[k].post[hist[k].ret].type = "plane"
    /\ hist[k].post[hist[k].ret].id = hist[k].pre[hist[k].s].id

\* a x + b y + c z - d on the base coefficients bc of a plane
PlaneValue(bc, p) ==
  [num |-> Dot3(<<bc.num[1], bc.num[2], bc.num[3]>>, p) - bc.num[4], den |-> bc.den]

\* the fractions u and v are the same number
SameValue(u, v) == u.num * v.den = v.num * u.den

\* evaluate(p) of the Quadric constructed from the base coefficients of inst
QuadricOf(inst, p) ==
  QuadricValue(QuadRep([m |-> M, id |-> inst.id], inst, _get_base_coeffs(inst)).quad.coeffs, p)

\* C27: evaluate(p) of an axis plane is the plane polynomial of its base
\* coefficients at p, evaluate(p) of an axis cylinder, a sphere or an axis
\* cone is the quadric polynomial of its base coefficients at p, and
\* evaluate(p) of a general cylinder or cone is evaluate(p) of the Quadric
\* constructed from its base coefficients.
C27_EvaluateBase ==
  \A k \in Calls("evaluate") :
    /\ hist[k].pre[hist[k].s].type \in {"x-plane", "y-plane", "z-plane"} =>
         SameValue(hist[k].out,
                   PlaneValue(_get_base_coeffs(hist[k].pre[hist[k].s]), hist[k].point))
    /\ hist[k].pre[hist[k].s].type \in {"x-cylinder", "y-cylinder", "z-cylinder", "sphere",
                                        "x-cone", "y-cone", "z-cone"} =>
         SameValue(hist[k].out,
                   QuadricValue(_get_base_coeffs(hist[k].pre[hist[k].s]), hist[k].point))
    /\ hist[k].pre[hist[k].s].type \in {"cylinder", "cone"} =>
         SameValue(hist[k].out, QuadricOf(hist[k].pre[hist[k].s], hist[k].point))

\* an axis cylinder of a radius other than 1 was translated and evaluated
\* at a point off its axis
C27_Witness ==
  \E k \in Calls("evaluate") :
    /\ k = 2
    /\ hist[1].vector # Zero3
    /\ hist[k].pre[hist[k].s].type = "x-cylinder"
    /\ getattr(hist[k].pre[hist[k].s], "r") > 1
    /\ hist[k].point[2] # getattr(hist[k].pre[hist[k].s], "y0")
    /\ hist[k].out.num = QuadricValue(_get_base_coeffs(hist[k].pre[hist[k].s]),
                                      hist[k].point).num

\* the points p1, p2, p3 lie along a line: p2 - p1 and p3 - p1 are
\* multiples of one vector
Collinear(p1, p2, p3) ==
  \E a \in -MaxPoint..MaxPoint : \E b \in -MaxPoint..MaxPoint :
    /\ a # 0 \/ b # 0
    /\ \A i \in 1..3 : a * (p2[i] - p1[i]) = b * (p3[i] - p1[i])

\* C28: Plane.from_points(p1, p2, p3) returns, for three points that do not
\* lie along a line, a new plane whose evaluate is 0 at p1, p2 and p3, with
\* normalized coefficients (1, 1, 1, 1) for (1, 0, 0), (0, 1, 0), (0, 0, 1);
\* for three points along a line it raises an error, returns nothing and
\* constructs no plane.
C28_PlaneFromPoints ==
  \A k \in Calls("Plane.from_points") :
    IF Collinear(hist[k].p1, hist[k].p2, hist[k].p3)
    THEN /\ hist[k].err = "ValueError"
         /\ hist[k].ret = None
         /\ hist[k].post = hist[k].pre
    ELSE /\ hist[k].err = ""
         /\ hist[k].ret \notin DOMAIN hist[k].pre
         /\ hist[k].post[hist[k].ret].type = "plane"
         /\ \A p \in {hist[k].p1, hist[k].p2, hist[k].p3} :
              evaluate(hist[k].post[hist[k].ret], p).num = 0
         /\ <<hist[k].p1, hist[k].p2, hist[k].p3>> = << <<1, 0, 0>>, <<0, 1, 0>>, <<0, 0, 1>> >>
              => AllClose(normalize(_get_base_coeffs(hist[k].post[hist[k].ret])),
                          [num |-> <<1, 1, 1, 1>>, den |-> 1])

\* the plane through (1, 0, 0), (0, 1, 0), (0, 0, 1) was constructed
C28_Witness ==
  \E k \in Calls("Plane.from_points") :
    /\ <<hist[k].p1, hist[k].p2, hist[k].p3>> = << <<1, 0, 0>>, <<0, 1, 0>>, <<0, 0, 1>> >>
    /\ hist[k].err = ""
    /\ heap[hist[k].ret].coeffs = Coefficients(_coeff_keys("plane"), <<1, 1, 1, 1>>)

\* the instances u and v describe the same surface: the same normalized
\* base coefficients, or for tori the same class and coefficients
SameSurface(u, v) ==
  IF HasBaseCoeffs(u) /\ HasBaseCoeffs(v) THEN is_equal(u, v).val
  ELSE u.type = v.type /\ u.coeffs = v.coeffs

\* C29: when rotate with inplace=True and a pivot other than the origin
\* returns, the instance it was called on is either as it was before the
\* call or the fully rotated surface that was returned; it is never left
\* translated by -pivot only.
C29_NoIntermediateState ==
  \A k \in Calls("rotate") :
    (hist[k].inplace /\ hist[k].pivot # Zero3 /\ hist[k].err = "") =>
      \/ hist[k].post[hist[k].s] = hist[k].pre[hist[k].s]
      \/ SameSurface(hist[k].post[hist[k].s], hist[k].post[hist[k].ret])

\* C30: for a surface S of a plane, sphere, cylinder, cone or quadric
\* family, a vector v other than zero and either side, the half-space
\* returned by Halfspace(S, side).translate(v) has the same side, and a point
\* p is in Halfspace(S, side) before the call iff p + v is in the half-space
\* returned.
C30_TranslateClassification ==
  \A k \in Performed("hstranslate") :
    (hist[k].pre[hist[k].s].type \notin TorusTypes /\ ~AllCloseZero(hist[k].vector)) =>
      /\ hist[k].err = ""
      /\ hist[k].out.side = hist[k].self.side
      /\ \A p \in Probes :
           HalfspaceContains(hist[k].pre, hist[k].self, p)
             <=> HalfspaceContains(hist[k].post, hist[k].out, Add3(p, hist[k].vector))

\* the "-" half-space of a cone was translated, not in place and without a
\* memo, and a point of it is outside the half-space returned
C30_Witness ==
  \E k \in Performed("hstranslate") :
    /\ hist[k].pre[hist[k].s].type \in {"cone", "x-cone", "y-cone", "z-cone"}
    /\ ~hist[k].inplace /\ hist[k].mi = 0
    /\ hist[k].self.side = "-" /\ hist[k].out.side = "-"
    /\ hist[k].out.surface # hist[k].s
    /\ ~AllCloseZero(hist[k].vector)
    /\ \E p \in Probes :
         /\ HalfspaceContains(hist[k].pre, hist[k].self, p)
         /\ ~HalfspaceContains(hist[k].post, hist[k].out, p)
         /\ HalfspaceContains(hist[k].post, hist[k].out, Add3(p, hist[k].vector))

====
